---------------------------- MODULE Spec2Model ----------------------------
(***************************************************************************)
(* Model of the job-matrix processing pipeline of the image-to-video tool. *)
(*                                                                         *)
(* One behaviour is one run.  The run is either the verbose pipeline       *)
(* (process_matrix_verbose with the polling client                         *)
(* AsyncReplicateClientEnhanced) or the matrix pipeline (process_matrix    *)
(* with the blocking ReplicateClient).  The provider, the file download    *)
(* and the contents of the input directories are the environment: every    *)
(* answer they can give is a nondeterministic choice.                      *)
(*                                                                         *)
(* Money is counted in units of 1e-5 USD, time in whole seconds.           *)
(***************************************************************************)
EXTENDS Integers, Sequences, FiniteSets, TLC

(***************************************************************************)
(* Bounds of the model (not program constants).                            *)
(***************************************************************************)
\* at most this many job inputs are present in the input directory
MaxJobs == 2
\* at most this many profile definition files are present
MaxProfiles == 2
\* the client's max_wait_time (a constructor parameter, default 1200 in
\* config/constants.py), bounded so that the poll loop reaches its ceiling
max_wait_time == 7
\* longest time one status reload can take
MaxReloadTime == 1

(***************************************************************************)
(* Program constants.                                                      *)
(***************************************************************************)
max_retries == 3
rate_limit_retry_delay == 60
poll_interval == 3


(***************************************************************************)
(* Profile definition files.  A file is the parsed YAML mapping: `keys' is *)
(* the set of top-level keys the document has, the other fields are the    *)
(* values under those keys (meaningless for an absent key).                *)
(***************************************************************************)
AllProfileKeys ==
    {"Model", "pricing", "duration_type", "fps", "duration_min",
     "duration_max", "duration_param_name", "params"}

BaseProfileFile ==
    [ stem                |-> 1,
      zeros               |-> 0,
      ext                 |-> "yaml",
      yaml_ok             |-> TRUE,
      keys                |-> AllProfileKeys,
      prompt_prefix       |-> <<>>,
      prompt_suffix       |-> <<>>,
      endpoint            |-> "owner/model",
      pricing             |-> [cost_per_second |-> 5000],
      duration_type       |-> "frames",
      fps                 |-> 2,
      duration_min        |-> 2,
      duration_max        |-> 6,
      duration_param_name |-> "num_frames",
      params_null         |-> FALSE,
      params              |-> [resolution |-> 720] ]

\* the profile definitions a profiles directory may hold
ProfileCatalog ==
    { BaseProfileFile,
      [BaseProfileFile EXCEPT !.stem = 2, !.duration_type = "seconds",
                              !.duration_min = 2, !.duration_max = 3,
                              !.duration_param_name = "duration",
                              !.pricing = [cost_per_second |-> 1234],
                              !.prompt_prefix = <<"P">>, !.prompt_suffix = <<"S">>,
                              !.params = [fps |-> 2]],
      \* prices by frame only
      [BaseProfileFile EXCEPT !.stem = 3,
                              !.pricing = [cost_per_frame |-> 100]],
      \* no pricing section
      [BaseProfileFile EXCEPT !.stem = 4,
                              !.keys = AllProfileKeys \ {"pricing"}],
      \* "params:" with nothing under it
      [BaseProfileFile EXCEPT !.stem = 5, !.params_null = TRUE],
      \* negative rate
      [BaseProfileFile EXCEPT !.stem = 6,
                              !.pricing = [cost_per_second |-> -100]],
      \* unknown duration type
      [BaseProfileFile EXCEPT !.stem = 7, !.duration_type = "minutes"],
      \* not parseable as YAML
      [BaseProfileFile EXCEPT !.stem = 8, !.yaml_ok = FALSE],
      \* duration fields that break the rule
      [BaseProfileFile EXCEPT !.stem = 9, !.fps = 0],
      [BaseProfileFile EXCEPT !.stem = 10, !.duration_min = 6, !.duration_max = 2],
      [BaseProfileFile EXCEPT !.stem = 11, !.duration_min = 0, !.duration_max = 0],
      [BaseProfileFile EXCEPT !.stem = 12, !.duration_param_name = ""],
      [BaseProfileFile EXCEPT !.stem = 13, !.keys = AllProfileKeys \ {"fps"}] }

(***************************************************************************)
(* The profiles directories of the runs: up to MaxProfiles files of the    *)
(* catalog, and two directories with files whose names are alike: one with *)
(* 1.yaml and 1.yml, one with 1.yaml and 01.yaml.                          *)
(***************************************************************************)
ProfileDirs ==
    {T \in SUBSET ProfileCatalog : Cardinality(T) \in 1..MaxProfiles}
        \cup { {BaseProfileFile, [BaseProfileFile EXCEPT !.ext = "yml"]},
               {BaseProfileFile, [BaseProfileFile EXCEPT !.zeros = 1]} }

(***************************************************************************)
(* Job inputs: the stripped texts of the prompt, image URL and frame-count *)
(* sources of one job.  The frame-count text is an integer literal         *)
(* (frames_is_int) or some other text.  A prompt, like a prefix or a       *)
(* suffix, is the sequence of its characters.                              *)
(***************************************************************************)
BaseJobInput ==
    [ stem          |-> 4,
      prompt        |-> <<"B">>,
      image_url     |-> "https://img/a.png",
      frames_is_int |-> TRUE,
      frames        |-> 5 ]

JobCatalog ==
    { BaseJobInput,
      [BaseJobInput EXCEPT !.stem = 5, !.frames = 9],
      [BaseJobInput EXCEPT !.stem = 6, !.frames = 1],
      \* malformed inputs, one that sorts after the well-formed ones and
      \* three that sort before them
      [BaseJobInput EXCEPT !.stem = 7, !.prompt = <<>>],
      [BaseJobInput EXCEPT !.stem = 1, !.frames = 0],
      [BaseJobInput EXCEPT !.stem = 2, !.frames_is_int = FALSE],
      [BaseJobInput EXCEPT !.stem = 3, !.image_url = "ftp://img/a.png"] }

\* str.startswith("http://") or str.startswith("https://") on the texts used
IsHttpUrl(s) == s \in {"https://img/a.png", "http://video/x.mp4", "https://video/x.mp4"}

(***************************************************************************)
(* File names are "<zeros><stem>.<ext>": a number, written with or without *)
(* a leading zero, and an extension.  Path.stem is the name without the    *)
(* extension.  A directory listing (glob) gives the files of a directory   *)
(* in an order the file system chooses.                                    *)
(***************************************************************************)
PathStem(f) == <<f.zeros, f.stem>>

Listings(S) ==
    { l \in [1..Cardinality(S) -> S] :
          \A i, j \in 1..Cardinality(S) : i # j => l[i] # l[j] }

\* find_yaml_files: the *.yaml files as listed, then the *.yml files
find_yaml_files(listing) ==
    LET is_yaml(f) == f.ext = "yaml"
        is_yml(f)  == f.ext = "yml"
    IN  SelectSeq(listing, is_yaml) \o SelectSeq(listing, is_yml)

\* the key natsort compares: the digits of a name as the number they
\* denote (leading zeros do not count), then the text that follows
\* (".yaml" before ".yml"; the job files of a directory share one extension)
natsort_key(f) ==
    <<f.stem, IF "ext" \in DOMAIN f /\ f.ext = "yml" THEN 1 ELSE 0>>

KeyLess(a, b) == a[1] < b[1] \/ (a[1] = b[1] /\ a[2] < b[2])

\* natsorted: a stable sort by natsort_key, so files with equal keys stay
\* in the order of the list they came in
RECURSIVE natsorted(_)
natsorted(files) ==
    IF files = <<>> THEN <<>>
    ELSE LET i == CHOOSE i \in 1..Len(files) :
                      /\ \A j \in 1..Len(files) :
                             ~KeyLess(natsort_key(files[j]), natsort_key(files[i]))
                      /\ \A j \in 1..(i - 1) :
                             KeyLess(natsort_key(files[i]), natsort_key(files[j]))
         IN  <<files[i]>> \o natsorted(SubSeq(files, 1, i - 1)
                                          \o SubSeq(files, i + 1, Len(files)))


(***************************************************************************)
(* Profile validation and loading.                                         *)
(***************************************************************************)
Ok(v) == [ok |-> TRUE, value |-> v]
Raise(kind) == [ok |-> FALSE, error |-> kind]

\* ProfileValidator.validate_model_section: section and endpoint must exist
validate_model_section(f) == "Model" \in f.keys

\* ProfileValidator.validate_pricing_section: the section exists and names
\* at least one of the three pricing fields; the values are not inspected
validate_pricing_section(f) ==
    /\ "pricing" \in f.keys
    /\ \E field \in {"cost_per_frame", "cost_per_second", "cost_per_prediction"} :
           field \in DOMAIN f.pricing

\* a validation that does not compare the two limits
validate_duration_section_unordered(f) ==
    /\ {"duration_type", "fps", "duration_min", "duration_max",
        "duration_param_name"} \subseteq f.keys
    /\ f.duration_type \in {"frames", "seconds"}
    /\ f.fps > 0
    /\ f.duration_min >= 0
    /\ f.duration_max > 0
    /\ f.duration_param_name # ""

\* ProfileValidator.validate_duration_section
validate_duration_section(f) ==
    /\ {"duration_type", "fps", "duration_min", "duration_max",
        "duration_param_name"} \subseteq f.keys
    /\ f.duration_type \in {"frames", "seconds"}
    /\ f.fps > 0
    /\ f.duration_min >= 0
    /\ f.duration_max > 0
    /\ f.duration_min <= f.duration_max
    /\ f.duration_param_name # ""

\* ProfileValidator.validate_params_section: only the key must exist
validate_params_section(f) == "params" \in f.keys

\* load_single_profile: yaml.safe_load, the four validations in order, then
\* the profile dict, which has the six keys name, model_id, nickname,
\* pricing, parameters and duration_config and no other
load_single_profile(f) ==
    IF ~f.yaml_ok THEN Raise("YAMLError")
    ELSE IF ~validate_model_section(f) THEN Raise("ProfileValidationError")
    ELSE IF ~validate_pricing_section(f) THEN Raise("ProfileValidationError")
    ELSE IF ~validate_duration_section(f) THEN Raise("ProfileValidationError")
    ELSE IF ~validate_params_section(f) THEN Raise("ProfileValidationError")
    ELSE Ok([ name            |-> PathStem(f),
              model_id        |-> f.endpoint,
              pricing         |-> f.pricing,
              parameters_null |-> f.params_null,
              parameters      |-> f.params,
              duration_config |->
                  [ duration_type       |-> f.duration_type,
                    fps                 |-> f.fps,
                    duration_min        |-> f.duration_min,
                    duration_max        |-> f.duration_max,
                    duration_param_name |-> f.duration_param_name ] ])

\* a loader that logs a file that does not load and goes on to the next
load_active_profiles_skipping(yaml_files) ==
    LET loads(f) == load_single_profile(f).ok
        sorted == natsorted(SelectSeq(yaml_files, loads))
    IN  IF sorted = <<>> THEN Raise("ProfileValidationError")
        ELSE Ok([i \in 1..Len(sorted) |-> load_single_profile(sorted[i]).value])

\* load_active_profiles: every file find_yaml_files found, in natural order; the
\* first file that does not load raises and nothing is returned
load_active_profiles(yaml_files) ==
    IF yaml_files = <<>> THEN Raise("ProfileValidationError")
    ELSE LET sorted == natsorted(yaml_files)
         IN  IF \E i \in 1..Len(sorted) : ~load_single_profile(sorted[i]).ok
             THEN LET first == CHOOSE i \in 1..Len(sorted) :
                                  /\ ~load_single_profile(sorted[i]).ok
                                  /\ \A j \in 1..(i - 1) : load_single_profile(sorted[j]).ok
                  IN  load_single_profile(sorted[first])
             ELSE Ok([i \in 1..Len(sorted) |-> load_single_profile(sorted[i]).value])

(***************************************************************************)
(* Input loading.                                                          *)
(***************************************************************************)
\* load_input_data: non-empty texts, an http(s) URL, an integer >= 1
load_input_data(j) ==
    IF j.prompt = <<>> \/ j.image_url = "" THEN Raise("ValueError")
    ELSE IF ~IsHttpUrl(j.image_url) THEN Raise("ValueError")
    ELSE IF ~j.frames_is_int THEN Raise("ValueError")
    ELSE IF j.frames < 1 THEN Raise("ValueError")
    ELSE Ok([prompt |-> j.prompt, image_url |-> j.image_url, num_frames |-> j.frames])

\* parse_markdown_job: the three-line job file of the matrix pipeline
parse_markdown_job(j) ==
    IF j.prompt = <<>> THEN Raise("ValueError")
    ELSE IF ~j.frames_is_int \/ j.frames < 1 THEN Raise("ValueError")
    ELSE IF ~IsHttpUrl(j.image_url) THEN Raise("ValueError")
    ELSE Ok([stem |-> j.stem, prompt |-> j.prompt, image_url |-> j.image_url,
             num_frames |-> j.frames])

(***************************************************************************)
(* Duration handling.                                                      *)
(***************************************************************************)
\* a clamp that forgets the upper limit
_process_frame_duration_min_only(frame_count, min_frames, max_frames) ==
    IF frame_count < min_frames
    THEN [adjusted |-> min_frames, was_adjusted |-> TRUE,
          info |-> [original |-> frame_count, adjusted |-> min_frames,
                    reason |-> "Below minimum", type |-> "frames"]]
    ELSE [adjusted |-> frame_count, was_adjusted |-> FALSE,
          info |-> [original |-> frame_count, adjusted |-> frame_count,
                    reason |-> "", type |-> "frames"]]

\* _process_frame_duration; the reason texts stand for
\* f"Below minimum ({min_frames})" and f"Exceeded maximum ({max_frames})",
\* "" for None
_process_frame_duration(frame_count, min_frames, max_frames) ==
    IF frame_count < min_frames
    THEN [adjusted |-> min_frames, was_adjusted |-> TRUE,
          info |-> [original |-> frame_count, adjusted |-> min_frames,
                    reason |-> "Below minimum", type |-> "frames"]]
    ELSE IF frame_count > max_frames
    THEN [adjusted |-> max_frames, was_adjusted |-> TRUE,
          info |-> [original |-> frame_count, adjusted |-> max_frames,
                    reason |-> "Exceeded maximum", type |-> "frames"]]
    ELSE [adjusted |-> frame_count, was_adjusted |-> FALSE,
          info |-> [original |-> frame_count, adjusted |-> frame_count,
                    reason |-> "", type |-> "frames"]]

\* a conversion that rounds down
FloorDiv(a, b) == a \div b

\* math.ceil(frame_count / fps) for positive fps
CeilDiv(a, b) == (a + b - 1) \div b

\* _process_seconds_duration
_process_seconds_duration(frame_count, fps, min_seconds, max_seconds) ==
    LET original_seconds == CeilDiv(frame_count, fps)
        adjusted_seconds ==
            IF original_seconds < min_seconds THEN min_seconds
            ELSE IF original_seconds > max_seconds THEN max_seconds
            ELSE original_seconds
        reason ==
            IF original_seconds < min_seconds THEN "Below minimum"
            ELSE IF original_seconds > max_seconds THEN "Exceeded maximum"
            ELSE ""
    IN  [adjusted |-> adjusted_seconds, was_adjusted |-> reason # "",
         info |-> [original_frames |-> frame_count,
                   original_seconds |-> original_seconds,
                   adjusted_seconds |-> adjusted_seconds,
                   fps |-> fps, reason |-> reason, type |-> "seconds"]]

\* process_duration (a loaded profile has one of the two types)
process_duration(frame_count, profile) ==
    LET dc == profile.duration_config
    IN  IF dc.duration_type = "frames"
        THEN _process_frame_duration(frame_count, dc.duration_min, dc.duration_max)
        ELSE _process_seconds_duration(frame_count, dc.fps, dc.duration_min,
                                       dc.duration_max)

\* an inclusion that does not look at the parameters
should_include_fps_always(profile) == TRUE

\* should_include_fps
should_include_fps(profile) == "fps" \in DOMAIN profile.parameters

\* _prepare_generation_params: profile["parameters"].copy() raises when the
\* params section was empty (None); otherwise the duration is stored under
\* the profile's parameter name and fps is added when the profile named it
_prepare_generation_params(profile, num_frames) ==
    IF profile.parameters_null THEN Raise("AttributeError")
    ELSE LET d    == process_duration(num_frames, profile)
             name == profile.duration_config.duration_param_name
             keys == (DOMAIN profile.parameters) \cup {name}
             withDuration ==
                 [k \in keys |-> IF k = name THEN d.adjusted
                                 ELSE profile.parameters[k]]
             params ==
                 IF should_include_fps(profile)
                 THEN [k \in keys \cup {"fps"} |->
                          IF k = "fps" THEN profile.duration_config.fps
                          ELSE withDuration[k]]
                 ELSE withDuration
         IN  Ok([params |-> params, adjustment_info |-> d.info])

(***************************************************************************)
(* Cost calculation.                                                       *)
(***************************************************************************)
\* round(x, 4) on an amount in units of 1e-5 USD: nearest multiple of 10,
\* ties to the even multiple
Round4(x) ==
    LET ax == IF x < 0 THEN -x ELSE x
        q  == ax \div 10
        r  == ax % 10
        up == IF r > 5 \/ (r = 5 /\ q % 2 = 1) THEN q + 1 ELSE q
        m  == up * 10
    IN  IF x < 0 THEN -m ELSE m

\* calculate_video_cost: only cost_per_second is priced; a negative rate or
\* a pricing section without cost_per_second raises ValueError
calculate_video_cost(profile, video_duration_seconds) ==
    IF "cost_per_second" \in DOMAIN profile.pricing
    THEN IF profile.pricing.cost_per_second < 0 THEN Raise("ValueError")
         ELSE Ok(Round4(profile.pricing.cost_per_second * video_duration_seconds))
    ELSE Raise("ValueError")

\* a pricing that takes the count of frames for a number of seconds
calculate_cost_from_params_unconverted(profile, params, num_frames) ==
    LET name == profile.duration_config.duration_param_name
        video_duration == IF name \in DOMAIN params THEN params[name] ELSE num_frames
    IN  calculate_video_cost(profile, video_duration)

\* the conversion both pipelines apply before pricing: int(frames / fps) for
\* a frames rule, the value itself for a seconds rule
calculate_cost_from_params(profile, params, num_frames) ==
    LET name == profile.duration_config.duration_param_name
        video_duration == IF name \in DOMAIN params THEN params[name] ELSE num_frames
        video_duration_seconds ==
            IF profile.duration_config.duration_type = "frames"
            THEN video_duration \div profile.duration_config.fps
            ELSE video_duration
    IN  calculate_video_cost(profile, video_duration_seconds)


(***************************************************************************)
(* Provider answers.                                                       *)
(***************************************************************************)
\* prediction.status values the provider reports
Statuses == {"starting", "processing", "succeeded", "failed", "canceled"}

\* prediction.output / the value of client.run: None or empty (t = "none"),
\* a string, an object with a url attribute ("file"), a list whose first
\* element has the shape `first', or any other object, v being its text
Out(t, first, v) == [t |-> t, first |-> first, v |-> v]
NoOutput == Out("none", "none", "")
Outputs ==
    { NoOutput,
      Out("str", "none", "https://video/x.mp4"),
      Out("file", "none", "https://video/x.mp4"),
      Out("list", "str", "https://video/x.mp4"),
      Out("list", "file", "https://video/x.mp4"),
      Out("list", "other", "<object>"),
      Out("str", "none", "not a url"),
      Out("other", "none", "https://video/x.mp4"),
      Out("other", "none", "<object>") }

\* str.startswith("http") on the texts used
StartsWithHttp(s) == s \in {"https://img/a.png", "http://video/x.mp4", "https://video/x.mp4"}

\* the progress logs a handle may carry while the prediction is processing
ProgressLogs == {"", "generating 50%"}

\* the value that stands for None as a percentage
NoProgress == 0 - 1

\* _extract_progress: the first percentage found in prediction.logs, None
\* when there is none
_extract_progress(p) == IF p.logs = "" THEN NoProgress ELSE 50

\* _extract_output_url of the polling clients; "" stands for None
_extract_output_url(output) ==
    IF output.t = "none" THEN ""
    ELSE IF output.t = "str" THEN output.v
    ELSE IF output.t = "file" THEN output.v
    ELSE IF output.t = "list"
         THEN IF output.first \in {"file", "str"} THEN output.v ELSE ""
    ELSE IF StartsWithHttp(output.v) THEN output.v ELSE ""

(***************************************************************************)
(* State.                                                                  *)
(***************************************************************************)
VARIABLES
    ctx,              \* the run's inputs: pipeline, directories and their files
    pc,               \* position of the run
    active_profiles,  \* result of load_active_profiles
    jobs,             \* triplets (verbose) or parsed jobs (matrix), in order
    ji, pi,           \* indices of the current job and profile
    total,            \* the computed matrix size
    success_count, total_cost, all_adjustments,
    cell,             \* locals of the cell being processed
    attempt,          \* the retry loop's attempt number
    wait_time,        \* the wait computed for the failed attempt
    waited,           \* seconds slept since the last failed attempt
    fail_kinds,       \* kinds of the failed attempts of this submission
    prediction,       \* the handle being polled
    elapsed,          \* time.time() - start_time of the poll loop
    api_result,       \* what the client returned ("" is None)
    api_end,          \* the return point of the client call
    outcome,          \* "running", "returned" or "raised"
    error,            \* the exception that ended the run
    submits,          \* submit calls made for the current cell
    cells_submitted,  \* cells for which a submit call was made, in order
    reloads,          \* status reloads started for the current handle
    callbacks         \* progress callbacks made for the current handle

vars == << ctx, pc, active_profiles, jobs, ji, pi, total, success_count,
           total_cost, all_adjustments, cell, attempt, wait_time, waited,
           fail_kinds, prediction, elapsed, api_result, api_end, outcome,
           error, submits, cells_submitted, reloads, callbacks >>

orchVars == << active_profiles, jobs, ji, pi, total, success_count,
               total_cost, all_adjustments >>
clientVars == << attempt, wait_time, waited, fail_kinds, prediction, elapsed,
                 api_result, api_end, reloads, callbacks >>
histVars == << submits, cells_submitted >>

NoCell == [ prompt          |-> <<>>,
            image_url       |-> "",
            num_frames      |-> 0,
            params          |-> [k \in {} |-> 0],
            adjustment_info |-> [reason |-> "", type |-> "none"] ]
NoPrediction == [id |-> 0, status |-> "none", output |-> NoOutput, has_error |-> FALSE,
                 logs |-> ""]
\* no progress callback made yet for the handle
NoCallback == [n |-> 0, status |-> "none", pct |-> NoProgress, repeats |-> 0]
NoError == [kind |-> "none", stage |-> "none"]

\* sets of at most n elements of S, at least one
SubsetsUpTo(S, n) == {T \in SUBSET S : Cardinality(T) \in 1..n}

Init ==
    /\ ctx \in [ pipeline      : {"verbose", "matrix"},
                 input_dir     : {"IN"},
                 output_dir    : {"IN", "OUT"},
                 profile_files : ProfileDirs,
                 job_files     : SubsetsUpTo(JobCatalog, MaxJobs) ]
    \* the verbose pipeline never looks jobs up by directory
    /\ ctx.pipeline = "verbose" => ctx.output_dir = "OUT"
    /\ pc = "start"
    /\ active_profiles = <<>>
    /\ jobs = <<>>
    /\ ji = 1
    /\ pi = 1
    /\ total = 0
    /\ success_count = 0
    /\ total_cost = 0
    /\ all_adjustments = <<>>
    /\ cell = NoCell
    /\ attempt = 0
    /\ wait_time = 0
    /\ waited = 0
    /\ fail_kinds = <<>>
    /\ prediction = NoPrediction
    /\ elapsed = 0
    /\ api_result = ""
    /\ api_end = "none"
    /\ outcome = "running"
    /\ error = NoError
    /\ submits = 0
    /\ cells_submitted = <<>>
    /\ reloads = 0
    /\ callbacks = NoCallback

\* an exception raised before the batch starts leaves the pipeline
RaiseRun(kind, stage) ==
    /\ outcome' = "raised"
    /\ error' = [kind |-> kind, stage |-> stage]
    /\ pc' = "done"

\* a cell retried after its exception instead of the run being aborted
RaiseCellAndRetry(kind, stage) ==
    /\ outcome' = "raised"
    /\ error' = [kind |-> kind, stage |-> stage]
    /\ pc' = "cell"

\* an exception inside the loop body of the batch: the except clause marks
\* the error and re-raises, which ends the run (fail fast)
RaiseCell(kind, stage) ==
    /\ outcome' = "raised"
    /\ error' = [kind |-> kind, stage |-> stage]
    /\ pc' = "done"

CurrentCell == <<jobs[ji].stem, active_profiles[pi].name>>

\* run_dir / f"{prompt_file.stem}_X_{profile['name']}": the directory the
\* verbose pipeline makes (mkdir, exist_ok) for a cell's video and documents
video_dir(job, profile) == <<"run_dir", job.stem, "_X_", profile.name>>


(***************************************************************************)
(* The verbose pipeline: process_matrix_verbose.                           *)
(***************************************************************************)
\* _setup_processing: discover the triplets (natural order), then load the
\* profiles; an invalid profile raises here
_setup_processing ==
    /\ pc = "start"
    /\ ctx.pipeline = "verbose"
    /\ \E txt \in Listings(ctx.job_files), listing \in Listings(ctx.profile_files) :
       LET loaded == load_active_profiles(find_yaml_files(listing))
       IN  /\ jobs' = natsorted(txt)
           /\ IF loaded.ok
              THEN /\ active_profiles' = loaded.value
                   /\ pc' = "batch"
                   /\ UNCHANGED << outcome, error >>
              ELSE /\ active_profiles' = <<>>
                   /\ RaiseRun(loaded.error, "setup")
    /\ UNCHANGED << ctx, ji, pi, total, success_count, total_cost,
                    all_adjustments, cell, clientVars, histVars >>

\* _execute_video_batch, before its loops
_execute_video_batch ==
    /\ pc = "batch"
    /\ ctx.pipeline = "verbose"
    /\ total' = Len(jobs) * Len(active_profiles)
    /\ success_count' = 0
    /\ total_cost' = 0
    /\ all_adjustments' = <<>>
    /\ ji' = 1
    /\ pi' = 1
    /\ pc' = "cell"
    /\ UNCHANGED << ctx, active_profiles, jobs, cell, clientVars, outcome,
                    error, histVars >>

\* the loops of _execute_video_batch are exhausted: _generate_summary
_generate_summary ==
    /\ pc = "cell"
    /\ ctx.pipeline = "verbose"
    /\ ji > Len(jobs)
    /\ outcome' = "returned"
    /\ pc' = "done"
    /\ UNCHANGED << ctx, orchVars, cell, clientVars, error, histVars >>

\* str.isspace for the characters a prompt may hold
IsSpace(c) == c \in {" ", "\t"}

\* str.strip of a text, as lstrip then rstrip
RECURSIVE lstrip(_)
lstrip(s) ==
    IF s = <<>> THEN s
    ELSE IF IsSpace(Head(s)) THEN lstrip(Tail(s)) ELSE s

RECURSIVE rstrip(_)
rstrip(s) ==
    IF s = <<>> THEN s
    ELSE IF IsSpace(s[Len(s)]) THEN rstrip(SubSeq(s, 1, Len(s) - 1)) ELSE s

strip(s) == rstrip(lstrip(s))

\* str.split(): the maximal runs of non-whitespace characters, in order
RECURSIVE split(_)
split(s) ==
    LET t == lstrip(s)
    IN  IF t = <<>> THEN <<>>
        ELSE LET n == CHOOSE k \in 1..Len(t) :
                          /\ \A i \in 1..k : ~IsSpace(t[i])
                          /\ k = Len(t) \/ IsSpace(t[k + 1])
             IN  <<SubSeq(t, 1, n)>> \o split(SubSeq(t, n + 1, Len(t)))

\* sep.join(words)
RECURSIVE join(_, _)
join(sep, words) ==
    IF words = <<>> THEN <<>>
    ELSE IF Len(words) = 1 THEN words[1]
    ELSE words[1] \o sep \o join(sep, Tail(words))

\* a composition that joins the parts and leaves inner whitespace as it is
_apply_prompt_modifications_unnormalised(prompt, profile) ==
    LET prefix == IF "prompt_prefix" \in DOMAIN profile THEN profile.prompt_prefix ELSE <<>>
        suffix == IF "prompt_suffix" \in DOMAIN profile THEN profile.prompt_suffix ELSE <<>>
        stripped == strip(prompt)
        withPrefix == IF prefix # <<>> /\ strip(prefix) # <<>>
                      THEN (IF stripped # <<>> THEN strip(prefix) \o <<" ">> \o stripped
                            ELSE strip(prefix))
                      ELSE stripped
        final == IF suffix # <<>> /\ strip(suffix) # <<>>
                 THEN (IF withPrefix # <<>> THEN withPrefix \o <<" ">> \o strip(suffix)
                       ELSE strip(suffix))
                 ELSE withPrefix
    IN  IF final = <<>> THEN Raise("ValueError") ELSE Ok(final)

\* _apply_prompt_modifications: the stripped prompt, with the profile's
\* stripped prefix and suffix when it has them (profile.get gives None for
\* a key the profile lacks, here the empty text), whitespace normalised;
\* ValueError when nothing is left
_apply_prompt_modifications(prompt, profile) ==
    LET prefix == IF "prompt_prefix" \in DOMAIN profile THEN profile.prompt_prefix ELSE <<>>
        suffix == IF "prompt_suffix" \in DOMAIN profile THEN profile.prompt_suffix ELSE <<>>
        stripped == strip(prompt)
        withPrefix == IF prefix # <<>> /\ strip(prefix) # <<>>
                      THEN (IF stripped # <<>> THEN strip(prefix) \o <<" ">> \o stripped
                            ELSE strip(prefix))
                      ELSE stripped
        withSuffix == IF suffix # <<>> /\ strip(suffix) # <<>>
                      THEN (IF withPrefix # <<>> THEN withPrefix \o <<" ">> \o strip(suffix)
                            ELSE strip(suffix))
                      ELSE withPrefix
        final == join(<<" ">>, split(withSuffix))
    IN  IF final = <<>> THEN Raise("ValueError") ELSE Ok(final)

\* the client call starts: the retry loop is entered with attempt 1
EnterClient(nextpc) ==
    /\ attempt' = 1
    /\ wait_time' = 0
    /\ waited' = 0
    /\ fail_kinds' = <<>>
    /\ prediction' = NoPrediction
    /\ elapsed' = 0
    /\ api_result' = ""
    /\ api_end' = "none"
    /\ reloads' = 0
    /\ callbacks' = NoCallback
    /\ submits' = 0
    /\ pc' = nextpc

\* _process_video_verbose up to the client call: the inputs of the cell are
\* read here, once per cell
_process_video_verbose ==
    /\ pc = "cell"
    /\ ctx.pipeline = "verbose"
    /\ ji <= Len(jobs)
    /\ LET input   == load_input_data(jobs[ji])
           profile == active_profiles[pi]
       IN  IF ~input.ok
           THEN /\ RaiseCell(input.error, "load_input")
                /\ UNCHANGED << cell, clientVars, submits >>
           ELSE LET prompt == _apply_prompt_modifications(input.value.prompt, profile)
                    prep   == _prepare_generation_params(profile, input.value.num_frames)
                IN  IF ~prompt.ok
                    THEN /\ RaiseCell(prompt.error, "prompt")
                         /\ UNCHANGED << cell, clientVars, submits >>
                    ELSE IF ~prep.ok
                    THEN /\ RaiseCell(prep.error, "prepare")
                         /\ UNCHANGED << cell, clientVars, submits >>
                    ELSE /\ cell' = [ prompt          |-> prompt.value,
                                      image_url       |-> input.value.image_url,
                                      num_frames      |-> input.value.num_frames,
                                      params          |-> prep.value.params,
                                      adjustment_info |-> prep.value.adjustment_info ]
                         /\ EnterClient("create")
                         /\ UNCHANGED << outcome, error >>
    /\ UNCHANGED << ctx, orchVars, cells_submitted >>


(***************************************************************************)
(* The polling client: AsyncReplicateClientEnhanced (the retry loop and    *)
(* the poll loop are the same code in AsyncReplicateClient and in          *)
(* BaseAsyncReplicateClient).                                              *)
(***************************************************************************)
\* texts of the exceptions a submit call raises
ErrorTexts == {"HTTP 429 Too Many Requests", "Rate limit exceeded",
               "Connection reset by peer", "Failed to generate prediction"}

\* "429" in str(e) or "rate" in str(e).lower(); "generate" contains "rate"
IsRateLimited(text) ==
    \/ text \in {"HTTP 429 Too Many Requests"}
    \/ text \in {"Rate limit exceeded", "Failed to generate prediction"}

Pow2(n) == IF n = 0 THEN 1 ELSE IF n = 1 THEN 2 ELSE IF n = 2 THEN 4
           ELSE IF n = 3 THEN 8 ELSE IF n = 4 THEN 16 ELSE 32

\* the wait computed in the except clause of the retry loop
RetryWaitTime(text, n) ==
    IF IsRateLimited(text) THEN rate_limit_retry_delay ELSE Pow2(n)

ErrorKind(text) == IF IsRateLimited(text) THEN "rate" ELSE "other"

\* "if attempt < self.max_retries": the failed attempt is followed by a wait
MayRetry(n) == n < max_retries

\* a range that is one pass too long
HasNextAttemptOffByOne(n) == n + 1 < max_retries + 2

\* "for attempt in range(1, self.max_retries + 1)": a pass follows pass n
HasNextAttempt(n) == n + 1 < max_retries + 1

\* a ceiling that still lets one more poll through
TimedOutLate(e) == e > max_wait_time + poll_interval

\* "if time.time() - start_time > self.max_wait_time"
TimedOut(e) == e > max_wait_time

\* the result is used without being tested
IsFalsyUnchecked(url) == FALSE

\* "not video_url"
IsFalsy(url) == url = ""

\* the client call returns to the pipeline
ClientReturns(result, why) ==
    /\ api_result' = result
    /\ api_end' = why
    /\ pc' = "api_return"

\* the submit call is observed by the provider
NoteSubmit ==
    /\ submits' = submits + 1
    /\ cells_submitted' = IF submits = 0 THEN Append(cells_submitted, CurrentCell)
                          ELSE cells_submitted

\* _create_prediction_with_retry, one pass of the loop body whose
\* predictions.create succeeds: the prediction is returned, the locals of
\* the retry loop are gone, and polling starts
CreatePredictionOk ==
    /\ pc = "create"
    /\ NoteSubmit
    /\ prediction' = [id |-> submits + 1, status |-> "starting",
                      output |-> NoOutput, has_error |-> FALSE, logs |-> ""]
    /\ attempt' = 0
    /\ wait_time' = 0
    /\ waited' = 0
    /\ fail_kinds' = <<>>
    /\ elapsed' = 0
    /\ pc' = "poll_check"
    /\ UNCHANGED << ctx, orchVars, cell, api_result, api_end, reloads, callbacks,
                    outcome, error >>

\* one pass whose predictions.create raises: the wait is computed and
\* show_error_with_retry is called
CreatePredictionFail ==
    /\ pc = "create"
    /\ NoteSubmit
    /\ \E text \in ErrorTexts :
          /\ wait_time' = RetryWaitTime(text, attempt)
          /\ fail_kinds' = Append(fail_kinds, ErrorKind(text))
    /\ waited' = 0
    /\ pc' = "show_error"
    /\ UNCHANGED << ctx, orchVars, cell, attempt, prediction, elapsed,
                    api_result, api_end, reloads, callbacks, outcome, error >>

\* show_error_with_retry(e, attempt, max_retries, wait_time): when
\* attempt < max_attempts, a countdown that sleeps one second wait_time times
show_error_with_retry ==
    /\ pc = "show_error"
    /\ waited' = IF attempt < max_retries THEN waited + wait_time ELSE waited
    /\ pc' = "retry_sleep"
    /\ UNCHANGED << ctx, orchVars, cell, attempt, wait_time, fail_kinds,
                    prediction, elapsed, api_result, api_end, reloads, callbacks,
                    outcome, error, histVars >>

\* "if attempt < self.max_retries: time.sleep(wait_time)", then the next
\* pass of the loop; after the last pass None is returned
RetrySleep ==
    /\ pc = "retry_sleep"
    /\ waited' = IF MayRetry(attempt) THEN waited + wait_time ELSE waited
    /\ IF HasNextAttempt(attempt)
       THEN /\ attempt' = attempt + 1
            /\ pc' = "create"
            /\ UNCHANGED << api_result, api_end >>
       ELSE /\ ClientReturns("", "exhausted")
            /\ UNCHANGED attempt
    /\ UNCHANGED << ctx, orchVars, cell, wait_time, fail_kinds, prediction,
                    elapsed, reloads, callbacks, outcome, error, histVars >>

\* a timeout that is answered by submitting the payload once more
PollCheckTimeoutResubmits ==
    /\ pc = "poll_check"
    /\ IF TimedOut(elapsed)
       THEN pc' = "create"
       ELSE pc' = "poll_reload"
    /\ UNCHANGED << ctx, orchVars, cell, attempt, wait_time, waited, fail_kinds,
                    prediction, elapsed, api_result, api_end, reloads, callbacks,
                    outcome, error, histVars >>

\* the poll loop's timeout check
PollCheckTimeout ==
    /\ pc = "poll_check"
    /\ IF TimedOut(elapsed)
       THEN ClientReturns("", "timeout")
       ELSE /\ pc' = "poll_reload"
            /\ UNCHANGED << api_result, api_end >>
    /\ UNCHANGED << ctx, orchVars, cell, attempt, wait_time, waited, fail_kinds,
                    prediction, elapsed, reloads, callbacks, outcome, error,
                    histVars >>

\* prediction.reload() returns: the provider reports any status; a
\* succeeded prediction carries an output, a failed one may carry an error
PollReloadOk ==
    /\ pc = "poll_reload"
    /\ reloads' = reloads + 1
    /\ \E d \in 0..MaxReloadTime : elapsed' = elapsed + d
    /\ \E st \in Statuses :
          \E out \in IF st = "succeeded" THEN Outputs ELSE {NoOutput} :
             \E err \in IF st = "failed" THEN BOOLEAN ELSE {FALSE} :
                \E logs \in IF st = "processing" THEN ProgressLogs ELSE {""} :
                   prediction' = [prediction EXCEPT !.status = st, !.output = out,
                                                    !.has_error = err, !.logs = logs]
    /\ pc' = "poll_callback"
    /\ UNCHANGED << ctx, orchVars, cell, attempt, wait_time, waited, fail_kinds,
                    api_result, api_end, callbacks, outcome, error, histVars >>

\* a failed reload that is logged and followed by the next poll
PollReloadFailRetried ==
    /\ pc = "poll_reload"
    /\ reloads' = reloads + 1
    /\ api_end' = "reload_failed"
    /\ pc' = "poll_sleep"
    /\ UNCHANGED << ctx, orchVars, cell, attempt, wait_time, waited, fail_kinds,
                    prediction, elapsed, api_result, callbacks, outcome, error,
                    histVars >>

\* prediction.reload() raises: the loop returns None
PollReloadFail ==
    /\ pc = "poll_reload"
    /\ reloads' = reloads + 1
    /\ ClientReturns("", "reload_failed")
    /\ UNCHANGED << ctx, orchVars, cell, attempt, wait_time, waited, fail_kinds,
                    prediction, elapsed, callbacks, outcome, error, histVars >>

\* the callback after one more call with the given arguments; repeats
\* counts the calls whose arguments equal those of the call before
Called(cb, status, pct) ==
    [ n       |-> cb.n + 1,
      status  |-> status,
      pct     |-> pct,
      repeats |-> IF cb.n > 0 /\ cb.status = status /\ cb.pct = pct
                  THEN cb.repeats + 1 ELSE cb.repeats ]

\* a callback that is made only when the status or the percentage changed
PollCallbackOnChange ==
    /\ pc = "poll_callback"
    /\ LET pct == _extract_progress(prediction)
       IN  callbacks' = IF callbacks.n > 0 /\ callbacks.status = prediction.status
                                          /\ callbacks.pct = pct
                        THEN callbacks
                        ELSE Called(callbacks, prediction.status, pct)
    /\ pc' = "poll_decide"
    /\ UNCHANGED << ctx, orchVars, cell, attempt, wait_time, waited, fail_kinds,
                    prediction, elapsed, api_result, api_end, reloads, outcome, error,
                    histVars >>

\* "if progress_callback: progress_callback(prediction.status, progress_pct)"
\* with the callback the pipeline supplies
PollCallback ==
    /\ pc = "poll_callback"
    /\ callbacks' = Called(callbacks, prediction.status, _extract_progress(prediction))
    /\ pc' = "poll_decide"
    /\ UNCHANGED << ctx, orchVars, cell, attempt, wait_time, waited, fail_kinds,
                    prediction, elapsed, api_result, api_end, reloads, outcome, error,
                    histVars >>

\* the completion check of the poll loop
PollCompletion ==
    /\ pc = "poll_decide"
    /\ IF prediction.status = "succeeded"
       THEN LET url == _extract_output_url(prediction.output)
            IN  ClientReturns(url, IF url = "" THEN "no_url" ELSE "url")
       ELSE IF prediction.status \in {"failed", "canceled"}
       THEN ClientReturns("", prediction.status)
       ELSE /\ pc' = "poll_sleep"
            /\ UNCHANGED << api_result, api_end >>
    /\ UNCHANGED << ctx, orchVars, cell, attempt, wait_time, waited, fail_kinds,
                    prediction, elapsed, reloads, callbacks, outcome, error,
                    histVars >>

\* a wait between polls that never ends
PollSleepFrozen ==
    /\ pc = "poll_sleep"
    /\ UNCHANGED vars

\* time.sleep(self.poll_interval)
PollSleep ==
    /\ pc = "poll_sleep"
    /\ elapsed' = elapsed + poll_interval
    /\ pc' = "poll_check"
    /\ UNCHANGED << ctx, orchVars, cell, attempt, wait_time, waited, fail_kinds,
                    prediction, api_result, api_end, reloads, callbacks, outcome, error,
                    histVars >>


(***************************************************************************)
(* The verbose pipeline, after the client call.                            *)
(***************************************************************************)
\* prediction.error: the provider's failure reason, None ("") when absent
prediction_error(p) == IF p.has_error THEN "provider failure reason" ELSE ""

\* the text of the exception raised for a falsy client result, in its
\* interpolated parts: f"No video URL returned from API for {video_name}"
\* and f"Failed to generate video for {request.markdown_file.name}"
NoUrlErrorMessage ==
    IF ctx.pipeline = "verbose"
    THEN << "No video URL returned from API for ",
            ToString(jobs[ji].stem), "_X_", ToString(active_profiles[pi].name) >>
    ELSE << "Failed to generate video for ", ToString(jobs[ji].stem), ".md" >>

\* the per-cell state is dropped when the cell is left
LeaveCell ==
    /\ cell' = NoCell
    /\ attempt' = 0
    /\ wait_time' = 0
    /\ waited' = 0
    /\ fail_kinds' = <<>>
    /\ prediction' = NoPrediction
    /\ elapsed' = 0
    /\ api_result' = ""
    /\ api_end' = "none"
    /\ reloads' = 0
    /\ callbacks' = NoCallback
    /\ submits' = 0

\* _process_video_verbose: "if not video_url: raise Exception(...)"
VerboseCheckUrl ==
    /\ pc = "api_return"
    /\ ctx.pipeline = "verbose"
    /\ IF IsFalsy(api_result)
       THEN RaiseCell("Exception", "generate")
       ELSE /\ pc' = "download"
            /\ UNCHANGED << outcome, error >>
    /\ UNCHANGED << ctx, orchVars, cell, clientVars, histVars >>

\* download_video: requests.get raises for a text that is no http(s) URL;
\* for a URL the transfer succeeds, or raises
download_video ==
    /\ pc = "download"
    /\ \/ /\ IsHttpUrl(api_result)
          /\ pc' = "cost"
          /\ UNCHANGED << outcome, error >>
       \/ RaiseCell("RequestException", "download")
    /\ UNCHANGED << ctx, orchVars, cell, clientVars, histVars >>

\* the entry all_adjustments receives for a cell whose duration was adjusted
AdjustmentRecord(job, profile, info) ==
    [file |-> job.stem, profile |-> profile.name, info |-> info]

\* a tracking that records every cell
TrackAdjustmentsAlways(job, profile, info) ==
    Append(all_adjustments, AdjustmentRecord(job, profile, info))

\* "Track adjustments": the list after a cell, one entry more when the
\* cell's adjustment_info has a reason
TrackAdjustments(job, profile, info) ==
    IF info.reason # ""
    THEN Append(all_adjustments, AdjustmentRecord(job, profile, info))
    ELSE all_adjustments

\* a loop body that counts the cell before its cost is known
VerboseFinishCellCountedFirst ==
    /\ pc = "cost"
    /\ ctx.pipeline = "verbose"
    /\ LET profile == active_profiles[pi]
           cost    == calculate_cost_from_params(profile, cell.params, cell.num_frames)
       IN  IF ~cost.ok
           THEN /\ RaiseCell(cost.error, "cost")
                /\ success_count' = success_count + 1
                /\ UNCHANGED << active_profiles, jobs, ji, pi, total, total_cost,
                                all_adjustments, cell, clientVars, submits >>
           ELSE /\ success_count' = success_count + 1
                /\ total_cost' = total_cost + cost.value
                /\ all_adjustments' =
                       TrackAdjustments(jobs[ji], profile, cell.adjustment_info)
                /\ IF pi < Len(active_profiles)
                   THEN /\ pi' = pi + 1
                        /\ ji' = ji
                   ELSE /\ pi' = 1
                        /\ ji' = ji + 1
                /\ LeaveCell
                /\ pc' = "cell"
                /\ UNCHANGED << active_profiles, jobs, total, outcome, error >>
    /\ UNCHANGED << ctx, cells_submitted >>

\* the end of _process_video_verbose (cost, documentation) and the rest of
\* the loop body of _execute_video_batch: the counters, the adjustment
\* entry, then the next profile or the next triplet
VerboseFinishCell ==
    /\ pc = "cost"
    /\ ctx.pipeline = "verbose"
    /\ LET profile == active_profiles[pi]
           cost    == calculate_cost_from_params(profile, cell.params, cell.num_frames)
       IN  IF ~cost.ok
           THEN /\ RaiseCell(cost.error, "cost")
                /\ UNCHANGED << orchVars, cell, clientVars, submits >>
           ELSE /\ success_count' = success_count + 1
                /\ total_cost' = total_cost + cost.value
                /\ all_adjustments' =
                       TrackAdjustments(jobs[ji], profile, cell.adjustment_info)
                /\ IF pi < Len(active_profiles)
                   THEN /\ pi' = pi + 1
                        /\ ji' = ji
                   ELSE /\ pi' = 1
                        /\ ji' = ji + 1
                /\ LeaveCell
                /\ pc' = "cell"
                /\ UNCHANGED << active_profiles, jobs, total, outcome, error >>
    /\ UNCHANGED << ctx, cells_submitted >>


(***************************************************************************)
(* The matrix pipeline: process_matrix with the blocking ReplicateClient.  *)
(***************************************************************************)
\* discover_markdown_jobs: the job files of a directory in natural order
discover_markdown_jobs(files) == natsorted(CHOOSE l \in Listings(files) : TRUE)

\* _discover_jobs_for_profiles: load_single_profile sets no
\* custom_input_path, so the only key of jobs_by_path is the input directory
jobs_by_path(path) == IF path = ctx.input_dir THEN jobs ELSE <<>>

\* process_matrix up to the call of _process_all_videos: profiles are
\* loaded, every job file is parsed, the matrix size is computed
process_matrix ==
    /\ pc = "start"
    /\ ctx.pipeline = "matrix"
    /\ \E listing \in Listings(ctx.profile_files) :
       LET loaded == load_active_profiles(find_yaml_files(listing))
           files  == discover_markdown_jobs(ctx.job_files)
           parsed == [i \in 1..Len(files) |-> parse_markdown_job(files[i])]
       IN  IF ~loaded.ok
           THEN /\ RaiseRun(loaded.error, "setup")
                /\ UNCHANGED << active_profiles, jobs, total >>
           ELSE IF \E i \in 1..Len(files) : ~parsed[i].ok
           THEN /\ RaiseRun("ValueError", "parse")
                /\ UNCHANGED << active_profiles, jobs, total >>
           ELSE /\ active_profiles' = loaded.value
                /\ jobs' = [i \in 1..Len(files) |-> parsed[i].value]
                /\ total' = Len(files) * Len(loaded.value)
                /\ pc' = "profile"
                /\ UNCHANGED << outcome, error >>
    /\ UNCHANGED << ctx, ji, pi, success_count, total_cost, all_adjustments,
                    cell, clientVars, histVars >>

\* _process_all_videos, head of the profile loop: the profile's jobs are
\* looked up under profile.get("custom_input_path", str(default_output_dir));
\* a profile without jobs is skipped
MatrixNextProfile ==
    /\ pc = "profile"
    /\ pi <= Len(active_profiles)
    /\ IF jobs_by_path(ctx.output_dir) = <<>>
       THEN /\ pi' = pi + 1
            /\ pc' = "profile"
            /\ UNCHANGED ji
       ELSE /\ ji' = 1
            /\ pc' = "cell"
            /\ UNCHANGED pi
    /\ UNCHANGED << ctx, active_profiles, jobs, total, success_count, total_cost,
                    all_adjustments, cell, clientVars, outcome, error, histVars >>

\* _process_all_videos returns and process_matrix builds the summary
MatrixReturn ==
    /\ pc = "profile"
    /\ pi > Len(active_profiles)
    /\ outcome' = "returned"
    /\ pc' = "done"
    /\ UNCHANGED << ctx, orchVars, cell, clientVars, error, histVars >>

\* a preparation that writes the duration into the profile's own
\* parameters instead of a copy
_process_single_video_in_place ==
    /\ pc = "cell"
    /\ ctx.pipeline = "matrix"
    /\ LET job     == jobs[ji]
           profile == active_profiles[pi]
           prompt  == _apply_prompt_modifications(job.prompt, profile)
           prep    == _prepare_generation_params(profile, job.num_frames)
       IN  IF ~prompt.ok
           THEN /\ RaiseCell(prompt.error, "prompt")
                /\ UNCHANGED << active_profiles, cell, clientVars, submits >>
           ELSE IF ~prep.ok
           THEN /\ RaiseCell(prep.error, "prepare")
                /\ UNCHANGED << active_profiles, cell, clientVars, submits >>
           ELSE /\ cell' = [ prompt          |-> prompt.value,
                             image_url       |-> job.image_url,
                             num_frames      |-> job.num_frames,
                             params          |-> prep.value.params,
                             adjustment_info |-> prep.value.adjustment_info ]
                /\ active_profiles' =
                       [active_profiles EXCEPT ![pi].parameters = prep.value.params]
                /\ EnterClient("run")
                /\ UNCHANGED << outcome, error >>
    /\ UNCHANGED << ctx, jobs, ji, pi, total, success_count, total_cost,
                    all_adjustments, cells_submitted >>

\* _process_single_video up to the client call
_process_single_video ==
    /\ pc = "cell"
    /\ ctx.pipeline = "matrix"
    /\ LET job     == jobs[ji]
           profile == active_profiles[pi]
           prompt  == _apply_prompt_modifications(job.prompt, profile)
           prep    == _prepare_generation_params(profile, job.num_frames)
       IN  IF ~prompt.ok
           THEN /\ RaiseCell(prompt.error, "prompt")
                /\ UNCHANGED << cell, clientVars, submits >>
           ELSE IF ~prep.ok
           THEN /\ RaiseCell(prep.error, "prepare")
                /\ UNCHANGED << cell, clientVars, submits >>
           ELSE /\ cell' = [ prompt          |-> prompt.value,
                             image_url       |-> job.image_url,
                             num_frames      |-> job.num_frames,
                             params          |-> prep.value.params,
                             adjustment_info |-> prep.value.adjustment_info ]
                /\ EnterClient("run")
                /\ UNCHANGED << outcome, error >>
    /\ UNCHANGED << ctx, orchVars, cells_submitted >>

\* ReplicateClient._parse_video_response; "" stands for None.  A list
\* yields its first element, whatever it is
_parse_video_response(result) ==
    IF result.t = "none" THEN ""
    ELSE IF result.t = "str" THEN result.v
    ELSE IF result.t = "list" THEN result.v
    ELSE IF result.t = "file" THEN result.v
    ELSE IF StartsWithHttp(result.v) THEN result.v ELSE ""

\* _call_with_retry, a pass whose client.run returns; generate_video then
\* parses the result
CallRunOk ==
    /\ pc = "run"
    /\ NoteSubmit
    /\ \E result \in Outputs :
          LET url == _parse_video_response(result)
          IN  ClientReturns(url, IF url = "" THEN "no_url" ELSE "url")
    /\ UNCHANGED << ctx, orchVars, cell, attempt, wait_time, waited, fail_kinds,
                    prediction, elapsed, reloads, callbacks, outcome, error >>

\* a pass whose client.run raises: a rate-limit error sleeps the fixed delay
\* and continues; another error sleeps 2^attempt before the last attempt and
\* is re-raised on the last attempt
CallRunFail ==
    /\ pc = "run"
    /\ NoteSubmit
    /\ waited' = 0
    /\ \E text \in ErrorTexts :
          /\ fail_kinds' = Append(fail_kinds, ErrorKind(text))
          /\ IF IsRateLimited(text)
             THEN /\ wait_time' = rate_limit_retry_delay
                  /\ pc' = "sync_sleep"
                  /\ UNCHANGED << outcome, error >>
             ELSE IF MayRetry(attempt)
             THEN /\ wait_time' = Pow2(attempt)
                  /\ pc' = "sync_sleep"
                  /\ UNCHANGED << outcome, error >>
             ELSE /\ RaiseCell("Exception", "exhausted")
                  /\ UNCHANGED wait_time
    /\ UNCHANGED << ctx, orchVars, cell, attempt, prediction, elapsed,
                    api_result, api_end, reloads, callbacks >>

\* time.sleep in the except clause, then the next pass; when the range is
\* exhausted "Failed after max_retries attempts" is raised
SyncSleep ==
    /\ pc = "sync_sleep"
    /\ waited' = waited + wait_time
    /\ IF HasNextAttempt(attempt)
       THEN /\ attempt' = attempt + 1
            /\ pc' = "run"
            /\ UNCHANGED << outcome, error >>
       ELSE /\ RaiseCell("Exception", "exhausted")
            /\ UNCHANGED attempt
    /\ UNCHANGED << ctx, orchVars, cell, wait_time, fail_kinds, prediction,
                    elapsed, api_result, api_end, reloads, callbacks, histVars >>

\* _generate_and_download_video: "if not video_url: raise Exception(...)"
MatrixCheckUrl ==
    /\ pc = "api_return"
    /\ ctx.pipeline = "matrix"
    /\ IF IsFalsy(api_result)
       THEN RaiseCell("Exception", "generate")
       ELSE /\ pc' = "download"
            /\ UNCHANGED << outcome, error >>
    /\ UNCHANGED << ctx, orchVars, cell, clientVars, histVars >>

\* the end of _process_single_video and the rest of the loop body of
\* _process_all_videos
MatrixFinishCell ==
    /\ pc = "cost"
    /\ ctx.pipeline = "matrix"
    /\ LET profile == active_profiles[pi]
           cost    == calculate_cost_from_params(profile, cell.params, cell.num_frames)
       IN  IF ~cost.ok
           THEN /\ RaiseCell(cost.error, "cost")
                /\ UNCHANGED << orchVars, cell, clientVars, submits >>
           ELSE /\ all_adjustments' =
                       TrackAdjustments(jobs[ji], profile, cell.adjustment_info)
                /\ success_count' = success_count + 1
                /\ total_cost' = total_cost + cost.value
                /\ IF ji < Len(jobs)
                   THEN /\ ji' = ji + 1
                        /\ pi' = pi
                        /\ pc' = "cell"
                   ELSE /\ ji' = ji
                        /\ pi' = pi + 1
                        /\ pc' = "profile"
                /\ LeaveCell
                /\ UNCHANGED << active_profiles, jobs, total, outcome, error >>
    /\ UNCHANGED << ctx, cells_submitted >>

(***************************************************************************)
(* The run.                                                                *)
(***************************************************************************)
(***************************************************************************)
(* A user interrupt.  KeyboardInterrupt is raised in the main thread at    *)
(* the point it arrives: in time.sleep between submission attempts or      *)
(* between polls, in the blocking replicate.run, in the download.  It is   *)
(* no Exception, so none of the "except Exception" clauses of the clients, *)
(* of download_video or of the batch loop handles it: the stack unwinds    *)
(* (the cell's locals are gone) up to main.                                *)
(***************************************************************************)
\* an interrupt that the loop's "except Exception" clause handles
RaiseInterruptAsException(stage) ==
    RaiseCell("Exception", stage)

RaiseInterrupt(stage) ==
    /\ outcome' = "raised"
    /\ error' = [kind |-> "KeyboardInterrupt", stage |-> stage]
    /\ pc' = "done"

InterruptPoints == {"retry_sleep", "poll_sleep", "sync_sleep", "download"}

KeyboardInterrupt ==
    /\ pc \in InterruptPoints
    /\ RaiseInterrupt(pc)
    /\ LeaveCell
    /\ UNCHANGED << ctx, orchVars, cells_submitted >>

(***************************************************************************)
(* main: the exit code of the command.  The except clauses are tried in    *)
(* order: KeyboardInterrupt, AuthenticationError, InputValidationError,    *)
(* VideoGenerationError (the base class of ProfileValidationError and      *)
(* APIError too), then Exception.                                          *)
(***************************************************************************)
VideoGenerationErrors ==
    {"VideoGenerationError", "AuthenticationError", "InputValidationError",
     "ProfileValidationError", "APIError"}

main_exit_code(out, err) ==
    IF out = "returned" THEN 0
    ELSE IF err.kind = "KeyboardInterrupt" THEN 130
    ELSE IF err.kind = "AuthenticationError" THEN 2
    ELSE IF err.kind = "InputValidationError" THEN 3
    ELSE IF err.kind \in VideoGenerationErrors THEN 4
    ELSE 1

Next ==
    \/ _setup_processing
    \/ _execute_video_batch
    \/ _generate_summary
    \/ _process_video_verbose
    \/ CreatePredictionOk
    \/ CreatePredictionFail
    \/ show_error_with_retry
    \/ RetrySleep
    \/ PollCheckTimeout
    \/ PollReloadOk
    \/ PollReloadFail
    \/ PollCallback
    \/ PollCompletion
    \/ PollSleep
    \/ VerboseCheckUrl
    \/ download_video
    \/ VerboseFinishCell
    \/ process_matrix
    \/ MatrixNextProfile
    \/ MatrixReturn
    \/ _process_single_video
    \/ CallRunOk
    \/ CallRunFail
    \/ SyncSleep
    \/ MatrixCheckUrl
    \/ MatrixFinishCell
    \/ KeyboardInterrupt

Spec == Init /\ [][Next]_vars


(***************************************************************************)
(* The prompt composition on its own: _apply_prompt_modifications applied  *)
(* to a profile dictionary that holds a prompt_prefix and a prompt_suffix, *)
(* for every prefix, prompt and suffix up to the bounds.  The texts are    *)
(* over a letter of their own and whitespace (a tab too for the prompt).   *)
(***************************************************************************)
MaxAffixLen == 2
MaxPromptLen == 4

Texts(chars, n) == UNION { [1..k -> chars] : k \in 0..n }

PromptInit ==
    /\ ctx \in [ pipeline : {"prompt"},
                 prefix   : Texts({"A", " "}, MaxAffixLen),
                 prompt   : Texts({"B", " ", "\t"}, MaxPromptLen),
                 suffix   : Texts({"C", " "}, MaxAffixLen) ]
    /\ pc = "start"
    /\ active_profiles = <<>>
    /\ jobs = <<>>
    /\ ji = 1
    /\ pi = 1
    /\ total = 0
    /\ success_count = 0
    /\ total_cost = 0
    /\ all_adjustments = <<>>
    /\ cell = NoCell
    /\ attempt = 0
    /\ wait_time = 0
    /\ waited = 0
    /\ fail_kinds = <<>>
    /\ prediction = NoPrediction
    /\ elapsed = 0
    /\ api_result = ""
    /\ api_end = "none"
    /\ outcome = "running"
    /\ error = NoError
    /\ submits = 0
    /\ cells_submitted = <<>>
    /\ reloads = 0
    /\ callbacks = NoCallback

\* prompt = _apply_prompt_modifications(prompt, profile)
ApplyPromptModifications ==
    /\ pc = "start"
    /\ LET profile == [name |-> 1, prompt_prefix |-> ctx.prefix,
                       prompt_suffix |-> ctx.suffix]
           prompt  == _apply_prompt_modifications(ctx.prompt, profile)
       IN  IF ~prompt.ok
           THEN /\ RaiseCell(prompt.error, "prompt")
                /\ UNCHANGED cell
           ELSE /\ cell' = [NoCell EXCEPT !.prompt = prompt.value]
                /\ outcome' = "returned"
                /\ pc' = "done"
                /\ UNCHANGED error
    /\ UNCHANGED << ctx, orchVars, clientVars, histVars >>

PromptNext == ApplyPromptModifications

PromptSpec == PromptInit /\ [][PromptNext]_vars


(***************************************************************************)
(* The parameter preparation on its own: _prepare_generation_params        *)
(* applied to profiles whose params section declares any of fps,           *)
(* num_frames and resolution (or is empty, None), whose duration parameter *)
(* is named num_frames, duration or fps, of either duration type, for      *)
(* every frame count up to the bound.                                      *)
(***************************************************************************)
MaxFrames == 9

DeclaredValues == [fps |-> 24, num_frames |-> 99, resolution |-> 720]

ParamsInit ==
    /\ ctx \in [ pipeline            : {"params"},
                 params_null         : BOOLEAN,
                 declared            : SUBSET (DOMAIN DeclaredValues),
                 duration_param_name : {"num_frames", "duration", "fps"},
                 duration_type       : {"frames", "seconds"},
                 num_frames          : 1..MaxFrames ]
    /\ ctx.params_null => ctx.declared = {}
    /\ pc = "start"
    /\ active_profiles = <<>>
    /\ jobs = <<>>
    /\ ji = 1
    /\ pi = 1
    /\ total = 0
    /\ success_count = 0
    /\ total_cost = 0
    /\ all_adjustments = <<>>
    /\ cell = NoCell
    /\ attempt = 0
    /\ wait_time = 0
    /\ waited = 0
    /\ fail_kinds = <<>>
    /\ prediction = NoPrediction
    /\ elapsed = 0
    /\ api_result = ""
    /\ api_end = "none"
    /\ outcome = "running"
    /\ error = NoError
    /\ submits = 0
    /\ cells_submitted = <<>>
    /\ reloads = 0
    /\ callbacks = NoCallback

\* the profile load_single_profile builds from such a definition
ParamsProfile ==
    [ name            |-> <<0, 1>>,
      parameters_null |-> ctx.params_null,
      parameters      |-> [k \in ctx.declared |-> DeclaredValues[k]],
      duration_config |->
          [ duration_type       |-> ctx.duration_type,
            fps                 |-> 2,
            duration_min        |-> 2,
            duration_max        |-> 6,
            duration_param_name |-> ctx.duration_param_name ] ]

\* params, adjustment_info = _prepare_generation_params(profile, num_frames)
ApplyPrepareParams ==
    /\ pc = "start"
    /\ LET prep == _prepare_generation_params(ParamsProfile, ctx.num_frames)
       IN  IF ~prep.ok
           THEN /\ RaiseCell(prep.error, "prepare")
                /\ UNCHANGED cell
           ELSE /\ cell' = [NoCell EXCEPT !.num_frames = ctx.num_frames,
                                          !.params = prep.value.params,
                                          !.adjustment_info = prep.value.adjustment_info]
                /\ outcome' = "returned"
                /\ pc' = "done"
                /\ UNCHANGED error
    /\ UNCHANGED << ctx, orchVars, clientVars, histVars >>

ParamsNext == ApplyPrepareParams

ParamsSpec == ParamsInit /\ [][ParamsNext]_vars


(***************************************************************************)
(* Properties.                                                             *)
(***************************************************************************)
\* the k-th cell of the matrix in the pipeline's iteration order: triplets
\* outer and profiles inner (verbose), profiles outer and jobs inner (matrix)
CellAt(k) ==
    LET J == Len(jobs)
        P == Len(active_profiles)
    IN  IF ctx.pipeline = "verbose"
        THEN << jobs[((k - 1) \div P) + 1].stem, active_profiles[((k - 1) % P) + 1].name >>
        ELSE << jobs[((k - 1) % J) + 1].stem, active_profiles[((k - 1) \div J) + 1].name >>

\* the stages of a cell that follow its first submit call
StagesAfterSubmit == {"exhausted", "generate", "download", "cost"}

\* C1 -- fail-fast orchestration: when the k-th cell in iteration order
\* raises during submission, polling, download or cost computation, exactly
\* k-1 cells have been recorded as successful, and the cells submitted to the
\* provider are the first k cells and no other, in that state and ever after
C1_FailFast ==
    (outcome = "raised" /\ error.stage \in StagesAfterSubmit) =>
        LET k == Len(cells_submitted)
        IN  /\ k >= 1
            /\ success_count = k - 1
            /\ cells_submitted[k] = CurrentCell
            /\ \A i \in 1..k : cells_submitted[i] = CellAt(i)

\* C1 witness: the third of four cells failed after two successes
C1_Witness ==
    /\ outcome = "raised"
    /\ error.stage \in StagesAfterSubmit
    /\ success_count = 2
    /\ total = 4
    /\ Len(cells_submitted) = 3

\* C2 -- matrix sizing: a run that returns its summary has attempted every
\* (job, profile) pair exactly once, J x P cells, and the total it reports is
\* the number of cells attempted
C2_MatrixSizing ==
    outcome = "returned" =>
        /\ Len(cells_submitted) = Cardinality(ctx.job_files) * Cardinality(ctx.profile_files)
        /\ total = Len(cells_submitted)
        /\ \A i \in 1..Len(cells_submitted) : cells_submitted[i] = CellAt(i)

\* C3 -- submission attempt bound: for one cell at most max_retries submit
\* calls are made, whatever the mix of failures, and exactly max_retries when
\* every attempt fails
C3_AttemptBound ==
    /\ submits <= max_retries
    /\ (api_end = "exhausted" \/ (outcome = "raised" /\ error.stage = "exhausted"))
           => (submits = max_retries /\ Len(fail_kinds) = max_retries)

\* C3 witness: all attempts of a cell failed, with both kinds of failure
C3_Witness ==
    /\ api_end = "exhausted"
    /\ submits = max_retries
    /\ \E i, j \in 1..Len(fail_kinds) : fail_kinds[i] = "rate" /\ fail_kinds[j] = "other"

\* C4 -- exponential backoff: when attempt n+1 starts after attempt n failed
\* with a non-rate-limit error, exactly 2^n seconds were waited in between;
\* a prediction obtained on the third attempt is the third attempt's handle
C4_ExponentialBackoff ==
    /\ (pc \in {"create", "run"} /\ attempt > 1 /\ fail_kinds[attempt - 1] = "other")
           => waited = Pow2(attempt - 1)
    /\ (pc = "poll_check" /\ reloads = 0 /\ submits = 3) => prediction.id = 3

\* C5 -- rate-limit delay: when the next attempt starts after an attempt
\* failed with a rate-limit error, exactly rate_limit_retry_delay seconds
\* were waited in between
C5_RateLimitDelay ==
    (pc \in {"create", "run"} /\ attempt > 1 /\ fail_kinds[attempt - 1] = "rate")
        => waited = rate_limit_retry_delay

\* the return points of the client call that are terminal failures
FailureEnds == {"exhausted", "reload_failed", "timeout", "failed", "canceled", "no_url"}

C8_ReloadFailureTerminal ==
    api_end = "reload_failed" =>
        /\ pc \in {"api_return", "done"}
        /\ api_result = ""
        /\ pc = "done" => outcome = "raised"

\* C8 witness: the second reload of a handle failed and ended the run
C8_Witness ==
    /\ api_end = "reload_failed"
    /\ reloads = 2
    /\ outcome = "raised"

\* C9 -- configuration errors precede all API calls: a run that fails
\* because of a profile's configuration (validation at load, the parameters
\* section, the pricing section) has made no submit call
C9_ConfigErrorsFirst ==
    (outcome = "raised" /\ error.stage \in {"setup", "prepare", "cost"})
        => cells_submitted = <<>>

\* C10 -- input errors precede all processing: a run that fails because of
\* a malformed job input has made no submit call
C10_InputErrorsFirst ==
    (outcome = "raised" /\ error.stage \in {"load_input", "parse", "prompt"})
        => cells_submitted = <<>>

\* C11 -- remote failure carries its reason: when the polled handle reported
\* failed or canceled the run has ended with an exception, and the text of
\* that exception contains the provider's failure reason when the handle
\* has one
C11_FailureReasonCarried ==
    (pc = "done" /\ api_end \in {"failed", "canceled"}) =>
        /\ outcome = "raised"
        /\ prediction.has_error =>
               \E i \in 1..Len(NoUrlErrorMessage) :
                   NoUrlErrorMessage[i] = prediction_error(prediction)

\* the return points of the poll loop that follow a completed iteration
CompletionEnds == {"url", "no_url", "failed", "canceled"}

\* C12 -- progress callback on every iteration: in the poll loop the
\* callback has been made once for every status reload that succeeded, with
\* the status and the percentage (or None) of that reload, whether or not
\* they changed, and the call for the reload that observed a terminal status
\* was made before the loop returned
C12_CallbackEveryIteration ==
    /\ pc = "poll_callback" => callbacks.n = reloads - 1
    /\ pc \in {"poll_decide", "poll_sleep", "poll_check"} =>
           /\ callbacks.n = reloads
           /\ reloads > 0 => /\ callbacks.status = prediction.status
                             /\ callbacks.pct = _extract_progress(prediction)
    /\ (pc = "api_return" /\ prediction.status # "none") =>
           /\ api_end \in CompletionEnds =>
                  /\ callbacks.n = reloads
                  /\ callbacks.status = prediction.status
                  /\ callbacks.pct = _extract_progress(prediction)
           /\ api_end = "timeout" => callbacks.n = reloads
           /\ api_end = "reload_failed" => callbacks.n = reloads - 1

\* C12 witness: a terminal status was observed by the third reload, after a
\* reload that reported what the reload before it had reported, and all
\* three were passed to the callback
C12_Witness ==
    /\ pc = "api_return"
    /\ api_end \in {"failed", "url"}
    /\ reloads = 3
    /\ callbacks.n = 3
    /\ callbacks.repeats >= 1

\* the four output shapes that carry a URL
UrlShapes == { <<"str", "none">>, <<"file", "none">>, <<"list", "str">>, <<"list", "file">> }

\* C13 -- URL extraction: for a succeeded handle an output that is a URL
\* string, an object with a url attribute, or a list whose first element is
\* one of these, yields that URL; any other output yields a result only
\* when its text is an absolute HTTP(S) URL, and what is returned as the
\* result URL is always an HTTP(S) URL
C13_UrlExtraction ==
    (pc = "api_return" /\ prediction.status = "succeeded") =>
        LET output == prediction.output
        IN  /\ (<<output.t, output.first>> \in UrlShapes /\ IsHttpUrl(output.v))
                   => api_result = output.v
            /\ api_result # "" => IsHttpUrl(api_result)

\* a cell's parameters have been prepared and its profile is at hand
CellPrepared == cell # NoCell /\ pi <= Len(active_profiles)

\* C14 -- frame clamping: for a frames rule a frame count below min is
\* normalized to min, flagged, with a "below minimum" reason; one above max
\* to max, flagged, with an "exceeded maximum" reason; any other is kept,
\* not flagged, without reason; the value lies in [min, max] and is the
\* value the cell's parameters carry
C14_FrameClamping ==
    (CellPrepared /\ active_profiles[pi].duration_config.duration_type = "frames") =>
        LET dc  == active_profiles[pi].duration_config
            f   == cell.num_frames
            r   == process_duration(f, active_profiles[pi])
        IN  /\ f < dc.duration_min =>
                   /\ r.adjusted = dc.duration_min
                   /\ r.was_adjusted
                   /\ r.info.reason = "Below minimum"
            /\ f > dc.duration_max =>
                   /\ r.adjusted = dc.duration_max
                   /\ r.was_adjusted
                   /\ r.info.reason = "Exceeded maximum"
            /\ (dc.duration_min <= f /\ f <= dc.duration_max) =>
                   /\ r.adjusted = f
                   /\ ~r.was_adjusted
                   /\ r.info.reason = ""
            /\ r.adjusted \in dc.duration_min..dc.duration_max
            /\ cell.params[dc.duration_param_name] = r.adjusted
            /\ cell.adjustment_info = r.info

\* C14 witness: a cell of 9 frames under a rule of 2..6 frames is submitted
\* with 6 frames
C14_Witness ==
    /\ pc = "poll_check"
    /\ active_profiles[pi].duration_config.duration_type = "frames"
    /\ cell.num_frames > active_profiles[pi].duration_config.duration_max
    /\ cell.params["num_frames"] = active_profiles[pi].duration_config.duration_max
    /\ cell.adjustment_info.reason = "Exceeded maximum"

\* C15 -- seconds conversion: for a seconds rule the frame count becomes
\* the least whole number of seconds that holds all its frames (rounded up,
\* never down), which is then clamped into [min, max]; the info record
\* keeps the frame count, the seconds before and the seconds after the clamp
C15_SecondsConversion ==
    (CellPrepared /\ active_profiles[pi].duration_config.duration_type = "seconds") =>
        LET dc   == active_profiles[pi].duration_config
            f    == cell.num_frames
            info == cell.adjustment_info
            s    == info.original_seconds
        IN  /\ s * dc.fps >= f
            /\ (s - 1) * dc.fps < f
            /\ info.original_frames = f
            /\ info.adjusted_seconds =
                   (IF s < dc.duration_min THEN dc.duration_min
                    ELSE IF s > dc.duration_max THEN dc.duration_max ELSE s)
            /\ cell.params[dc.duration_param_name] = info.adjusted_seconds

\* C15 witness: 5 frames at 2 fps are submitted as 3 seconds, not 2
C15_Witness ==
    /\ pc = "poll_check"
    /\ active_profiles[pi].duration_config.duration_type = "seconds"
    /\ cell.num_frames = 5
    /\ active_profiles[pi].duration_config.fps = 2
    /\ cell.adjustment_info.original_seconds = 3
    /\ cell.params["duration"] = 3

\* r is x rounded to 4 decimal places, both in units of 1e-5 USD: the
\* multiple of 1e-4 nearest to x
IsRoundedTo4(x, r) == r % 10 = 0 /\ (r - x) \in -5..5

C17_NegativeRateRejectedAtLoad ==
    \A i \in 1..Len(active_profiles) :
        "cost_per_second" \in DOMAIN active_profiles[i].pricing
            => active_profiles[i].pricing.cost_per_second >= 0

\* the definition file a loaded profile was built from
FileOf(profile) == CHOOSE f \in ctx.profile_files : PathStem(f) = profile.name

\* C18 -- profile loading is all-or-nothing: what load_active_profiles
\* returned holds one validated profile for every definition file of the
\* directory; when a file is invalid or unparseable the run has ended with
\* the loader's exception and no profile was returned
C18_AllOrNothing ==
    /\ active_profiles # <<>> =>
           /\ Len(active_profiles) = Cardinality(ctx.profile_files)
           /\ \A f \in ctx.profile_files :
                  /\ f.yaml_ok
                  /\ validate_model_section(f) /\ validate_pricing_section(f)
                  /\ validate_duration_section(f) /\ validate_params_section(f)
                  /\ \E i \in 1..Len(active_profiles) : active_profiles[i].name = PathStem(f)
    /\ (pc # "start" /\ \E f \in ctx.profile_files : ~load_single_profile(f).ok) =>
           /\ active_profiles = <<>>
           /\ outcome = "raised"
           /\ error.stage = "setup"
           /\ cells_submitted = <<>>

\* C18 witness: a directory with a valid and an unparseable file ended the
\* run at load time
C18_Witness ==
    /\ outcome = "raised"
    /\ error = [kind |-> "YAMLError", stage |-> "setup"]
    /\ \E f \in ctx.profile_files : load_single_profile(f).ok
    /\ active_profiles = <<>>

\* C19 -- duration-rule invariant: every loaded profile has type frames or
\* seconds, fps > 0, 0 <= min <= max, max > 0 and a non-empty parameter
\* name, and each of the five values is the one its definition file gives:
\* none is defaulted
C19_DurationRuleInvariant ==
    \A i \in 1..Len(active_profiles) :
        LET dc == active_profiles[i].duration_config
            f  == FileOf(active_profiles[i])
        IN  /\ dc.duration_type \in {"frames", "seconds"}
            /\ dc.fps \in Nat \ {0}
            /\ 0 <= dc.duration_min
            /\ dc.duration_min <= dc.duration_max
            /\ dc.duration_max > 0
            /\ dc.duration_param_name # ""
            /\ {"duration_type", "fps", "duration_min", "duration_max",
                "duration_param_name"} \subseteq f.keys
            /\ dc = [ duration_type       |-> f.duration_type,
                      fps                 |-> f.fps,
                      duration_min        |-> f.duration_min,
                      duration_max        |-> f.duration_max,
                      duration_param_name |-> f.duration_param_name ]

\* C19 witness: a frames rule and a seconds rule were loaded and a cell is
\* being processed under the second
C19_Witness ==
    /\ Len(active_profiles) = 2
    /\ active_profiles[1].duration_config.duration_type = "frames"
    /\ active_profiles[2].duration_config.duration_type = "seconds"
    /\ pi = 2
    /\ pc = "poll_check"

\* the job's prompt with the prefix and suffix a definition file configures
ConfiguredPrompt(prompt, f) ==
    LET withPrefix == IF f.prompt_prefix # <<>> THEN f.prompt_prefix \o <<" ">> \o prompt
                      ELSE prompt
    IN  IF f.prompt_suffix # <<>> THEN withPrefix \o <<" ">> \o f.prompt_suffix
        ELSE withPrefix

\* C20 -- prefix and suffix reach the provider: the prompt of every cell
\* handed to the client is the job's prompt with the prompt_prefix and the
\* prompt_suffix configured in the profile's definition file applied
C20_PrefixSuffixApplied ==
    (CellPrepared /\ ji <= Len(jobs)) =>
        cell.prompt = ConfiguredPrompt(jobs[ji].prompt, FileOf(active_profiles[pi]))

\* the text with every whitespace run replaced by one space and no
\* whitespace at either end: the characters kept are the non-whitespace
\* ones and the first character of each run that has text on both sides
Squeeze(t) ==
    LET keep(i) == \/ ~IsSpace(t[i])
                   \/ /\ i > 1
                      /\ ~IsSpace(t[i - 1])
                      /\ \E j \in (i + 1)..Len(t) : ~IsSpace(t[j])
        kept == SelectSeq([i \in 1..Len(t) |-> i], keep)
    IN  [k \in 1..Len(kept) |-> IF IsSpace(t[kept[k]]) THEN " " ELSE t[kept[k]]]

\* C21 -- prompt composition: the effective prompt is the prefix, the job
\* prompt and the suffix joined by single spaces, with every whitespace run
\* collapsed to one space and no whitespace at either end; when nothing is
\* left the composition raises an error instead of producing a prompt
C21_PromptComposition ==
    (ctx.pipeline = "prompt" /\ pc = "done") =>
        LET expected == Squeeze(ctx.prefix \o <<" ">> \o ctx.prompt \o <<" ">> \o ctx.suffix)
        IN  IF expected = <<>>
            THEN outcome = "raised" /\ error = [kind |-> "ValueError", stage |-> "prompt"]
            ELSE outcome = "returned" /\ cell.prompt = expected

\* a prefix, a prompt with an inner whitespace run and a suffix were composed
C21_Witness ==
    /\ ctx.pipeline = "prompt"
    /\ ctx.prompt = <<"B", " ", "\t", "B">>
    /\ ctx.prefix = <<" ", "A">>
    /\ outcome = "returned"
    /\ cell.prompt = <<"A", " ", "B", " ", "B", " ", "C">>

\* the duration a job's frame count asks for under a definition file's
\* rule (frames, or the least whole number of seconds that holds them) is
\* outside the rule's bounds
DurationChanged(jobStem, profileName) ==
    LET j == CHOOSE x \in ctx.job_files : x.stem = jobStem
        f == CHOOSE x \in ctx.profile_files : PathStem(x) = profileName
        requested == IF f.duration_type = "frames" THEN j.frames
                     ELSE CHOOSE n \in 0..j.frames :
                              /\ n * f.fps >= j.frames
                              /\ \A m \in 0..(n - 1) : m * f.fps < j.frames
    IN  requested < f.duration_min \/ requested > f.duration_max

\* C22 -- adjustment recording: after a run that completes, the
\* adjustments list has exactly one entry, naming job and profile, for each
\* processed cell whose normalization changed the requested duration, none
\* for a cell whose duration was left unchanged, and no other entry
C22_AdjustmentRecording ==
    outcome = "returned" =>
        /\ \A k \in 1..Len(cells_submitted) :
               LET c == cells_submitted[k]
                   entries == { i \in 1..Len(all_adjustments) :
                                  <<all_adjustments[i].file, all_adjustments[i].profile>> = c }
                   \* the processed cells of that job and profile name (more
                   \* than one when two profiles have the same name)
                   cells == { n \in 1..Len(cells_submitted) : cells_submitted[n] = c }
               IN  Cardinality(entries) =
                       IF DurationChanged(c[1], c[2]) THEN Cardinality(cells) ELSE 0
        /\ \A i \in 1..Len(all_adjustments) :
               /\ \E k \in 1..Len(cells_submitted) :
                      cells_submitted[k] =
                          <<all_adjustments[i].file, all_adjustments[i].profile>>
               /\ all_adjustments[i].info.reason # ""

\* C22 witness: a completed run of two cells, one adjusted and one not
C22_Witness ==
    /\ outcome = "returned"
    /\ Len(cells_submitted) = 2
    /\ Len(all_adjustments) = 1

\* the output directory of the k-th cell the verbose pipeline processed
\* (triplets outer, profiles inner)
LocationAt(k) ==
    LET P == Len(active_profiles)
    IN  video_dir(jobs[((k - 1) \div P) + 1], active_profiles[((k - 1) % P) + 1])

\* C23 -- no output collision: two distinct (job, profile) cells of a run
\* are never given the same output location
C23_NoOutputCollision ==
    ctx.pipeline = "verbose" =>
        \A k1, k2 \in 1..Len(cells_submitted) :
            k1 # k2 => LocationAt(k1) # LocationAt(k2)

\* C24 -- distinct outcome categories: a generation failure of a cell
\* (submission exhausted, remote failed or canceled, timeout, no result URL)
\* ends the command with the generation-failure exit code 4, not with the
\* code of a fatal error (1), of an input failure (3), of an
\* authentication failure (2) or of an interruption (130)
C24_GenerationFailureOutcome ==
    (outcome = "raised" /\ error.stage \in {"generate", "exhausted"}) =>
        main_exit_code(outcome, error) = 4

\* C25 -- interrupt aborts the run: a user interrupt that arrives between
\* submission attempts, while polling or while downloading ends the run
\* with the interruption exit code 130; the interrupted cell is not among
\* the successes (they are the cells before it), and after the interrupt
\* no further step is taken, so no later cell is attempted
C25_InterruptAborts ==
    /\ [][KeyboardInterrupt =>
              /\ outcome' = "raised"
              /\ pc' = "done"
              /\ main_exit_code(outcome', error') = 130
              /\ success_count' = Len(cells_submitted') - 1
              /\ cell' = NoCell]_vars
    /\ [][main_exit_code(outcome, error) # 130]_vars

\* C25 witness: the second cell of a run was interrupted while polling,
\* with a further cell left in the matrix
C25_Witness ==
    /\ error = [kind |-> "KeyboardInterrupt", stage |-> "poll_sleep"]
    /\ success_count = 1
    /\ Len(cells_submitted) = 2
    /\ total > 2

\* the k-th cell of the matrix of the job files J (in order) and the
\* profiles P (in order), in the pipeline's iteration order
CellOf(J, P, k) ==
    IF ctx.pipeline = "verbose"
    THEN << J[((k - 1) \div Len(P)) + 1].stem, P[((k - 1) % Len(P)) + 1].name >>
    ELSE << J[((k - 1) % Len(J)) + 1].stem, P[((k - 1) \div Len(J)) + 1].name >>

\* C26 -- deterministic cell order: the cells a run has visited are, in
\* order, the cells that a run over the same job files and the same profile
\* files visits whatever the order in which the file system lists them
C26_DeterministicOrder ==
    \A txt \in Listings(ctx.job_files), listing \in Listings(ctx.profile_files) :
        LET J == natsorted(txt)
            P == load_active_profiles(find_yaml_files(listing))
        IN  P.ok => \A k \in 1..Len(cells_submitted) :
                        cells_submitted[k] = CellOf(J, P.value, k)

\* C27 -- rate-limited failures are not counted against the exponential
\* schedule: the wait computed after a non-rate-limit failure that a further
\* attempt follows is 2^k seconds, k the number of non-rate-limit failures
\* of the submission so far
C27_RateLimitNotCounted ==
    (/\ pc \in {"show_error", "retry_sleep", "sync_sleep"}
     /\ fail_kinds # <<>>
     /\ fail_kinds[Len(fail_kinds)] = "other"
     /\ MayRetry(attempt))
        => wait_time = Pow2(Cardinality({ i \in 1..Len(fail_kinds) : fail_kinds[i] = "other" }))

\* the run was ended by the exception raised for a cell whose submission
\* retries were all used up
EndedByExhaustion ==
    /\ outcome = "raised"
    /\ \/ error.stage = "generate" /\ api_end = "exhausted"
       \/ error.stage = "exhausted"

\* C28 -- submission exhaustion is local to the cell: the exhaustion of one
\* cell's submission retries does not end the run while cells of the
\* matrix remain
C28_ExhaustionIsLocal ==
    EndedByExhaustion => Len(cells_submitted) = total

\* parameters were prepared for a profile of the parameter preparation
ParamsPrepared == ctx.pipeline = "params" /\ outcome = "returned"

\* C29 -- duration parameter: the payload carries the normalized duration
\* under the key the profile names as its duration parameter, in place of
\* any value declared under that key, and every other key carries what the
\* profile declared for it (fps: the profile's fps)
C29_DurationParameter ==
    ParamsPrepared =>
        LET name == ctx.duration_param_name
            d    == process_duration(ctx.num_frames, ParamsProfile)
        IN  /\ name \in DOMAIN cell.params
            /\ cell.params[name] = d.adjusted
            /\ \A k \in (DOMAIN cell.params) \ {name} :
                   /\ k \in ctx.declared
                   /\ cell.params[k] = IF k = "fps" THEN 2 ELSE DeclaredValues[k]

PricingFields == {"cost_per_frame", "cost_per_second", "cost_per_prediction"}

\* C31 -- pricing models: the cost calculation of a cell raises only when
\* the profile's pricing holds none of cost_per_frame, cost_per_prediction
\* and cost_per_second (rates that are no valid amounts set aside); for a
\* profile that declares one of them a cost is returned
C31_PricingModels ==
    (/\ outcome = "raised"
     /\ error.stage = "cost"
     /\ \A field \in DOMAIN active_profiles[pi].pricing :
            active_profiles[pi].pricing[field] >= 0)
        => (DOMAIN active_profiles[pi].pricing) \cap PricingFields = {}


(***************************************************************************)
(* The log archiving on its own: archive_and_cleanup_logs applied, run     *)
(* after run, to an output directory that the runs fill with videos and    *)
(* reports.  ctx holds the directory: whether it exists, the files under   *)
(* it by relative path, the members of each zip in it, and the clock in    *)
(* seconds that names the archives.                                        *)
(***************************************************************************)
MaxClock == 2

File(dir, stem, suffix) == [dir |-> dir, stem |-> stem, stamp |-> 0, suffix |-> suffix]

\* what the runs write under the output directory
OutputFiles == { File("", "video1", ".mp4"), File("", "video2", ".MP4"),
                 File("", "SUCCESS", ".md"), File("subdir", "nested", ".log"),
                 File("subdir", "clip", ".mp4") }

\* zip_filename = f"{timestamp}_logs.zip", the timestamp to the second
zip_path(now) == [dir |-> "", stem |-> "_logs", stamp |-> now, suffix |-> ".zip"]

\* f.suffix.lower()
LowerSuffix(f) == IF f.suffix = ".MP4" THEN ".mp4" ELSE f.suffix

non_mp4_files(files) == {f \in files : LowerSuffix(f) # ".mp4"}

CleanupInit ==
    /\ ctx \in [ pipeline : {"cleanup"},
                 exists   : BOOLEAN,
                 files    : {{}},
                 zips     : {[z \in {} |-> {}]},
                 now      : {1} ]
    /\ pc = "start"
    /\ active_profiles = <<>>
    /\ jobs = <<>>
    /\ ji = 1
    /\ pi = 1
    /\ total = 0
    /\ success_count = 0
    /\ total_cost = 0
    /\ all_adjustments = <<>>
    /\ cell = NoCell
    /\ attempt = 0
    /\ wait_time = 0
    /\ waited = 0
    /\ fail_kinds = <<>>
    /\ prediction = NoPrediction
    /\ elapsed = 0
    /\ api_result = ""
    /\ api_end = "none"
    /\ outcome = "running"
    /\ error = NoError
    /\ submits = 0
    /\ cells_submitted = <<>>
    /\ reloads = 0
    /\ callbacks = NoCallback

CleanupRest == << pc, orchVars, cell, clientVars, outcome, error, histVars >>

\* a run writes a video or a report under the output directory
\* (download_video, create_success_report): mkdir(parents, exist_ok)
WriteOutput ==
    /\ \E f \in OutputFiles \ ctx.files :
           ctx' = [ctx EXCEPT !.exists = TRUE, !.files = @ \cup {f}]
    /\ UNCHANGED CleanupRest

\* datetime.now() moves on by a second
ClockTick ==
    /\ ctx.now < MaxClock
    /\ ctx' = [ctx EXCEPT !.now = @ + 1]
    /\ UNCHANGED CleanupRest

\* archive_and_cleanup_logs(output_dir): the zip is opened for writing at
\* zip_path (an existing file of that name is truncated), every file of the
\* listing taken before is written to it under its relative path (ctx.zips
\* keeps the member names of a zip), and the listed files are handed to trash, which removes all of them, or raises
\* after it removed some or none
archive_and_cleanup_logs ==
    /\ LET logs == non_mp4_files(ctx.files)
           zip  == zip_path(ctx.now)
       IN  IF ~ctx.exists \/ logs = {}
           THEN UNCHANGED ctx
           ELSE \E trashed \in SUBSET logs :
                    ctx' = [ctx EXCEPT
                              !.files = (@ \cup {zip}) \ trashed,
                              !.zips  = [z \in (DOMAIN @ \cup {zip}) \ trashed |->
                                           IF z = zip THEN logs ELSE @[z]]]
    /\ UNCHANGED CleanupRest

CleanupNext == WriteOutput \/ ClockTick \/ archive_and_cleanup_logs

CleanupSpec == CleanupInit /\ [][CleanupNext]_vars

\* C32 -- log archiving keeps videos: a call of archive_and_cleanup_logs
\* leaves every .mp4 file in place; with non-.mp4 files under the directory
\* it creates one zip, whose members are exactly those files by relative
\* path; with none of them, or no directory, it creates and removes nothing
C32_ArchiveKeepsVideos ==
    [][archive_and_cleanup_logs =>
        LET logs == non_mp4_files(ctx.files)
        IN  /\ ctx.files \ logs \subseteq ctx'.files
            /\ IF ~ctx.exists \/ logs = {}
               THEN ctx'.files = ctx.files
               ELSE \E zip \in ctx'.files \ ctx.files :
                        /\ ctx'.files \ ctx.files = {zip}
                        /\ zip.suffix = ".zip"
                        /\ ctx'.zips[zip] = logs]_vars

\* C33 -- at most one prediction per cell: while the client holds the
\* handle that a submission returned, no step submits again, whatever the
\* poll loop meets (a timeout, a failed reload, a failed or canceled
\* prediction)
C33_OnePredictionPerCell ==
    [][prediction.id # 0 => ~(submits' > submits)]_vars

\* a handle was returned after a failed submission, and its polling ended
\* by the timeout or by a failed reload
C33_Witness ==
    /\ pc = "api_return"
    /\ prediction.id = 2
    /\ api_end \in {"timeout", "reload_failed"}
    /\ submits = 2

\* the cells whose generation, download and cost computation all completed:
\* the cells submitted so far, but for the one still in the client, in the
\* download or in the cost computation, or ended there by an exception
CompletedCells ==
    IF submits > 0 \/ (outcome = "raised" /\ error.kind = "KeyboardInterrupt")
    THEN Len(cells_submitted) - 1
    ELSE Len(cells_submitted)

\* the cost of the k-th cell in iteration order, from its job and profile
CostOfCell(k) ==
    LET J == Len(jobs)
        P == Len(active_profiles)
        j == IF ctx.pipeline = "verbose" THEN ((k - 1) \div P) + 1 ELSE ((k - 1) % J) + 1
        p == IF ctx.pipeline = "verbose" THEN ((k - 1) % P) + 1 ELSE ((k - 1) \div J) + 1
        job  == IF ctx.pipeline = "verbose" THEN load_input_data(jobs[j]).value ELSE jobs[j]
        prep == _prepare_generation_params(active_profiles[p], job.num_frames).value
    IN  calculate_cost_from_params(active_profiles[p], prep.params, job.num_frames).value

RECURSIVE SumOfCosts(_)
SumOfCosts(k) == IF k = 0 THEN 0 ELSE SumOfCosts(k - 1) + CostOfCell(k)

C35_SuccessEqualsTotal ==
    (outcome = "returned" /\ ctx.pipeline \in {"verbose", "matrix"})
        => success_count = total

\* C36 -- no wait after the last attempt: when the submission retries of a
\* cell are used up, no backoff and no rate-limit wait was slept after the
\* failure of attempt number max_retries
C36_NoWaitAfterLastAttempt ==
    (api_end = "exhausted" \/ (outcome = "raised" /\ error.stage = "exhausted"))
        => waited = 0


(***************************************************************************)
(* The poll loop on its own: _poll_prediction on a handle that             *)
(* predictions.create just returned, every status fetch returning (with a  *)
(* status, documented or not, or by raising) and every sleep returning.    *)
(***************************************************************************)
PollInit ==
    /\ ctx = [pipeline |-> "poll"]
    /\ pc = "poll_check"
    /\ active_profiles = <<>>
    /\ jobs = <<>>
    /\ ji = 1
    /\ pi = 1
    /\ total = 0
    /\ success_count = 0
    /\ total_cost = 0
    /\ all_adjustments = <<>>
    /\ cell = NoCell
    /\ attempt = 0
    /\ wait_time = 0
    /\ waited = 0
    /\ fail_kinds = <<>>
    /\ prediction = [NoPrediction EXCEPT !.id = 1, !.status = "starting"]
    /\ elapsed = 0
    /\ api_result = ""
    /\ api_end = "none"
    /\ outcome = "running"
    /\ error = NoError
    /\ submits = 1
    /\ cells_submitted = <<>>
    /\ reloads = 0
    /\ callbacks = NoCallback

\* prediction.reload() returns with a status the loop has no branch for
PollReloadUnrecognised ==
    /\ pc = "poll_reload"
    /\ reloads' = reloads + 1
    /\ \E d \in 0..MaxReloadTime : elapsed' = elapsed + d
    /\ prediction' = [prediction EXCEPT !.status = "paused", !.output = NoOutput,
                                        !.has_error = FALSE, !.logs = ""]
    /\ pc' = "poll_callback"
    /\ UNCHANGED << ctx, orchVars, cell, attempt, wait_time, waited, fail_kinds,
                    api_result, api_end, callbacks, outcome, error, histVars >>

PollNext ==
    \/ PollCheckTimeout
    \/ PollReloadOk
    \/ PollReloadUnrecognised
    \/ PollReloadFail
    \/ PollCallback
    \/ PollCompletion
    \/ PollSleep

\* every status fetch returns and every sleep returns: a step of the loop
\* that can be taken is taken
PollSpec == PollInit /\ [][PollNext]_vars /\ WF_vars(PollNext)

\* the loop has returned
PollLoopEnded(ends) == pc = "api_return" /\ api_end \in ends

\* C37 (as stated) -- poll loop termination: every poll loop eventually
\* ends in success with a URL, remote failure or cancel, reload failure, or
\* timeout
C37_EndsInFourWays ==
    <>PollLoopEnded({"url", "failed", "canceled", "reload_failed", "timeout"})

\* C37 (amended) -- poll loop termination: every poll loop eventually ends,
\* in success with a URL, in a succeeded prediction without a URL, in remote
\* failure or cancel, in reload failure, or in timeout, also when the handle
\* never leaves a non-terminal or unrecognised status
C37_PollTerminates ==
    <>PollLoopEnded({"url", "no_url", "failed", "canceled", "reload_failed", "timeout"})

\* C37 witness: the loop timed out on a handle that reported nothing but a
\* status the loop does not recognise
C37_Witness ==
    /\ PollLoopEnded({"timeout"})
    /\ prediction.status = "paused"
    /\ callbacks.n = reloads
    /\ callbacks.repeats = reloads - 1
    /\ reloads >= 3


(***************************************************************************)
(* The payload on its own: the payload generate_video and                  *)
(* generate_video_from_request build and submit for a cell, for profiles   *)
(* whose params section declares any of the keys below and whose image     *)
(* parameter is named image or first_frame.                                *)
(***************************************************************************)
PayloadDeclared ==
    [ resolution  |-> "720p",
      prompt      |-> "declared prompt",
      image       |-> "https://img/declared.png",
      first_frame |-> "https://img/declared.png" ]

PayloadInit ==
    /\ ctx \in [ pipeline        : {"payload"},
                 declared        : SUBSET (DOMAIN PayloadDeclared),
                 image_url_param : {"image", "first_frame"},
                 prompt          : {"a cat walks", "declared prompt"},
                 image_url       : {"https://img/a.png", "https://img/b.png"},
                 num_frames      : {1, 5} ]
    /\ pc = "start"
    /\ active_profiles = <<>>
    /\ jobs = <<>>
    /\ ji = 1
    /\ pi = 1
    /\ total = 0
    /\ success_count = 0
    /\ total_cost = 0
    /\ all_adjustments = <<>>
    /\ cell = NoCell
    /\ attempt = 0
    /\ wait_time = 0
    /\ waited = 0
    /\ fail_kinds = <<>>
    /\ prediction = NoPrediction
    /\ elapsed = 0
    /\ api_result = ""
    /\ api_end = "none"
    /\ outcome = "running"
    /\ error = NoError
    /\ submits = 0
    /\ cells_submitted = <<>>
    /\ reloads = 0
    /\ callbacks = NoCallback

\* the profile load_single_profile builds from such a definition
PayloadProfile ==
    [ name            |-> <<0, 1>>,
      parameters_null |-> FALSE,
      parameters      |-> [k \in ctx.declared |-> PayloadDeclared[k]],
      duration_config |->
          [ duration_type       |-> "frames",
            fps                 |-> 2,
            duration_min        |-> 2,
            duration_max        |-> 6,
            duration_param_name |-> "num_frames" ] ]

\* payload = {image_url_param: image_url, "prompt": prompt, **params}: a
\* key of params takes the place of an entry written before it
BuildPayload(image_url_param, image_url, prompt, params) ==
    [k \in {image_url_param, "prompt"} \cup DOMAIN params |->
        IF k \in DOMAIN params THEN params[k]
        ELSE IF k = "prompt" THEN prompt
        ELSE image_url]

\* the cell's parameters are prepared and the client is called: the payload
\* is built and handed to predictions.create / client.run as input
SubmitPayload ==
    /\ pc = "start"
    /\ LET prep == _prepare_generation_params(PayloadProfile, ctx.num_frames).value
       IN  /\ cell' = [ prompt          |-> ctx.prompt,
                        image_url       |-> ctx.image_url,
                        num_frames      |-> ctx.num_frames,
                        params          |-> prep.params,
                        adjustment_info |-> prep.adjustment_info ]
           /\ prediction' = [ id     |-> 1,
                              status |-> "starting",
                              input  |-> BuildPayload(ctx.image_url_param, ctx.image_url,
                                                      ctx.prompt, prep.params) ]
    /\ submits' = 1
    /\ pc' = "poll_check"
    /\ UNCHANGED << ctx, orchVars, attempt, wait_time, waited, fail_kinds, elapsed,
                    api_result, api_end, reloads, callbacks, outcome, error,
                    cells_submitted >>

PayloadNext == SubmitPayload

PayloadSpec == PayloadInit /\ [][PayloadNext]_vars

\* C38 -- payload integrity: in the payload submitted for a cell the prompt
\* entry is the cell's effective prompt and the image entry is the job's
\* image URL, whatever keys the profile's generation parameters declare
C38_PayloadIntegrity ==
    (ctx.pipeline = "payload" /\ submits > 0) =>
        /\ prediction.input["prompt"] = cell.prompt
        /\ prediction.input[ctx.image_url_param] = cell.image_url


(***************************************************************************)
(* The two retry loops side by side: _call_with_retry of the blocking      *)
(* client and _create_prediction_with_retry of the polling clients, run    *)
(* with the same configuration on the same sequence of outcomes of the     *)
(* submit call ("ok", or the text of the exception raised).  Each yields   *)
(* the number of attempts made, the seconds slept after each failed        *)
(* attempt, and how it ended.                                              *)
(***************************************************************************)
AttemptOutcomes == {"ok"} \cup ErrorTexts

RetryInit ==
    /\ ctx \in [ pipeline : {"retry"},
                 outcomes : [1..max_retries -> AttemptOutcomes] ]
    /\ pc = "start"
    /\ active_profiles = <<>>
    /\ jobs = <<>>
    /\ ji = 1
    /\ pi = 1
    /\ total = 0
    /\ success_count = 0
    /\ total_cost = 0
    /\ all_adjustments = <<>>
    /\ cell = NoCell
    /\ attempt = 0
    /\ wait_time = 0
    /\ waited = 0
    /\ fail_kinds = <<>>
    /\ prediction = NoPrediction
    /\ elapsed = 0
    /\ api_result = ""
    /\ api_end = "none"
    /\ outcome = "running"
    /\ error = NoError
    /\ submits = 0
    /\ cells_submitted = <<>>
    /\ reloads = 0
    /\ callbacks = NoCallback

LoopResult(n, slept, end) == [attempts |-> n, slept |-> slept, end |-> end]

\* ReplicateClient._call_with_retry from pass n on: a rate-limit error
\* sleeps the fixed delay and continues; another error sleeps 2^n before the
\* last pass and is re-raised on the last; after the range, the loop raises
RECURSIVE _call_with_retry(_, _, _)
_call_with_retry(outcomes, n, slept) ==
    IF n > max_retries THEN LoopResult(max_retries, slept, "exhausted")
    ELSE IF outcomes[n] = "ok" THEN LoopResult(n, slept, "result")
    ELSE IF IsRateLimited(outcomes[n])
    THEN _call_with_retry(outcomes, n + 1, Append(slept, rate_limit_retry_delay))
    ELSE IF MayRetry(n)
    THEN _call_with_retry(outcomes, n + 1, Append(slept, Pow2(n)))
    ELSE LoopResult(n, Append(slept, 0), "exhausted")

\* _create_prediction_with_retry from pass n on: after a failure the
\* countdown of show_error_with_retry and then time.sleep, both before the
\* last pass only; after the range, None is returned
RECURSIVE _create_prediction_with_retry(_, _, _)
_create_prediction_with_retry(outcomes, n, slept) ==
    IF n > max_retries THEN LoopResult(max_retries, slept, "exhausted")
    ELSE IF outcomes[n] = "ok" THEN LoopResult(n, slept, "result")
    ELSE LET w         == RetryWaitTime(outcomes[n], n)
             countdown == IF n < max_retries THEN w ELSE 0
             sleep     == IF MayRetry(n) THEN w ELSE 0
         IN  _create_prediction_with_retry(outcomes, n + 1,
                                           Append(slept, countdown + sleep))

\* both loops are run on the outcomes
RunRetryLoops ==
    /\ pc = "start"
    /\ api_result' = [ sync    |-> _call_with_retry(ctx.outcomes, 1, <<>>),
                       polling |-> _create_prediction_with_retry(ctx.outcomes, 1, <<>>) ]
    /\ pc' = "done"
    /\ UNCHANGED << ctx, orchVars, cell, attempt, wait_time, waited, fail_kinds,
                    prediction, elapsed, api_end, reloads, callbacks, outcome,
                    error, histVars >>

RetryNext == RunRetryLoops

RetrySpec == RetryInit /\ [][RetryNext]_vars

\* C39 -- retry-loop equivalence: on the same sequence of outcomes the two
\* retry loops make the same number of attempts, sleep the same durations
\* and end in the same kind of outcome
C39_RetryLoopsEquivalent ==
    (ctx.pipeline = "retry" /\ pc = "done") =>
        /\ api_result.sync.attempts = api_result.polling.attempts
        /\ api_result.sync.slept = api_result.polling.slept
        /\ api_result.sync.end = api_result.polling.end

\* the profile as load_single_profile built it from its definition file
AsLoaded(profile) == load_single_profile(FileOf(profile)).value

\* C40 -- profiles are unchanged by processing: every loaded profile,
\* generation parameters included, stays as it was loaded throughout the
\* run, and the parameters built for a cell are those built from the profile
\* as loaded and the cell's own frame count, with nothing left of the cells
\* before it
C40_ProfilesUnchanged ==
    /\ \A i \in 1..Len(active_profiles) :
           active_profiles[i] = AsLoaded(active_profiles[i])
    /\ (CellPrepared /\ ctx.pipeline \in {"verbose", "matrix"}) =>
           cell.params = _prepare_generation_params(AsLoaded(active_profiles[pi]),
                                                    cell.num_frames).value.params

\* C40 witness: the second job under a profile is prepared with a duration
\* other than the one computed for the first job under that profile
C40_Witness ==
    /\ ctx.pipeline = "matrix"
    /\ pc = "run"
    /\ ji = 2
    /\ success_count >= 1
    /\ LET name  == active_profiles[pi].duration_config.duration_param_name
           first == _prepare_generation_params(active_profiles[pi],
                                               jobs[1].num_frames).value.params
       IN  cell.params[name] # first[name]

=============================================================================
